---- MODULE Spec2Model ----
(***************************************************************************)
(* Model of the inclusive-learning web application: the user_profiles      *)
(* table with its constraints, row-level-security policies and sign-up     *)
(* trigger (supabase/setup.sql, supabase_setup.sql), the React auth        *)
(* context built on it (two copies of AuthContext.tsx), the gesture        *)
(* classifier and translation table of the sign-language translator, the   *)
(* caption auto-save of the video captioner, and the components' teardown. *)
(***************************************************************************)
EXTENDS Integers, Sequences, FiniteSets, TLC

(***************************************************************************)
(* Bounds of the model.                                                    *)
(***************************************************************************)
NumUsers == 2
NumBrowserUsers == 1
MaxLoadingTimers == 2
MaxInsertTimers == 2

(***************************************************************************)
(* Values.                                                                 *)
(***************************************************************************)
NULL == "null"
NoUser == 0
Users == 1..NumUsers
\* the accounts used from the browser that runs the auth context
BrowserUsers == 1..NumBrowserUsers
Roles == {"student", "teacher"}
AttemptedRoles == Roles \cup {"admin"}
Schemas == {"setup", "supabase_setup"}
Variants == {"AuthContext", "part_001"}

VARIABLES
  schema,         \* which SQL script has been run: "none", "setup", "supabase_setup"
  authUsers,      \* ids of the rows of auth.users
  user_profiles,  \* rows of user_profiles: [id, email, role]
  sbSession,      \* the user the supabase client is authenticated as (auth.uid()), or NoUser
  ctxVariant,     \* which copy of AuthContext.tsx is built
  mounted,        \* the AuthProvider is mounted (its listener is subscribed)
  session,        \* useState session (identified by its user), or NoUser
  user,           \* useState user, or NoUser
  userRole,       \* useState userRole, or NULL
  isLoading,      \* useState isLoading
  loadingTimers,  \* pending setTimeout(() => setIsLoading(false), 1000)
  initPc,         \* getInitialSession: "awaitSession", "done"
  authPc,         \* signInWithEmail / signUpWithEmail: "idle", "signInAuth", "signInRole", "signUp"
  authArg,        \* [uid, role]: the account and role argument of the call in flight
  signOutPc,      \* signOut: "idle", "awaitSignOut"
  pending,        \* users for whom getInitialSession or the auth listener awaits fetchUserRole
  insertTimers,   \* the pending delayed profile inserts (part_001): [uid, email, n],
                  \* the n-th pending one with that userId and that email of getUser()
  last            \* the last completed operation or statement and its outcome

dbVars == <<schema, authUsers, user_profiles, sbSession>>
ctxVars == <<ctxVariant, mounted, session, user, userRole, isLoading, loadingTimers,
             initPc, authPc, authArg, signOutPc, pending, insertTimers, last>>

VARIABLES
  landmarks,         \* detectGesture: the landmark list it is called with
  detected,          \* detectGesture: what the call returned, "pending" before it
  gestures,          \* getTranslationFromGestures: the gesture list it is called with
  translation,       \* getTranslationFromGestures: what the call returned, "pending" before it
  capMounted,        \* the VideoCaptioner is mounted
  generatedCaptions, \* useState generatedCaptions: CaptionEntry[]
  videoCaptions,     \* localStorage item 'videoCaptions': the lines of the notes text, <<>> if unset
  autoSaveStatus,    \* useState autoSaveStatus
  autoSaveTimeout,   \* the timer of autoSaveTimeoutRef is pending
  changes,           \* committed changes to a non-empty caption list while that timer is pending
  writes,            \* localStorage.setItem calls in the same period
  capLast,           \* the last step of the captioner: [op, wrote]
  trMounted,         \* the SignLanguageTranslator is mounted
  cameraPc,          \* toggleCamera: "off", "awaitStream", "awaitRender", "awaitPlay", "on"
  isRecording,       \* useState isRecording
  liveStreams,       \* the streams getUserMedia returned whose tracks are live
  streamRef,         \* streamRef.current holds that stream
  framesSending,     \* processVideoFrame calls awaiting handModel.send
  framesScheduled,   \* pending requestAnimationFrame(processVideoFrame) callbacks
  refFramePending,   \* the callback whose id is in animationFrameRef is pending
  translationTimeout,\* the timer of translationTimeoutRef is pending
  modelRef,          \* modelRef.current holds the initialized Hands model
  uploadPc,          \* processUploadedVideo: "idle", "awaitMetadata", "sending", "scheduled",
                     \* "noMetadata" (the video failed to load: no callback is left)
  lateCallbacks      \* the callbacks that ran after their component's teardown

VARIABLES
  studentsPc,        \* the Students page: "closed", "open", "redirected" (navigate("/"))
  studentsRole,      \* the userRole its effects last ran with
  studentsLast       \* the last run of its effects: the userRole and isLoading it saw,
                     \* whether a teacher was signed in, whether it redirected and queried

VARIABLES
  capIsProcessing,   \* VideoCaptioner useState isProcessing
  recognitionRef,    \* recognitionRef.current: the recognizer of the last effect run
  oldRecognitions,   \* the recognizers of earlier effect runs that have not ended yet
  videoPlaying,      \* the video plays with the onended handler of generateCaptions set
  recLast            \* the last step of the recognizers: [op, processing, restarted]

VARIABLES
  detectedGestures,  \* useState detectedGestures: string[]
  currentGesture,    \* useState currentGesture
  lastGestureTime,   \* useState lastGestureTime
  translatedText,    \* useState translatedText
  handResults,       \* useState handResults is not null
  now,               \* Date.now(), in ms
  runClosure,        \* the state processFrame closes over: that of the render in which
                     \* processUploadedVideo was called
  appendTimes,       \* Date.now() at each append to detectedGestures made for a frame
                     \* of the current processUploadedVideo run
  frameLast          \* the frame the onResults listener handled in the last step

classifierVars == <<landmarks, detected, gestures, translation>>
recognitionVars == <<detectedGestures, currentGesture, lastGestureTime, translatedText,
                     handResults, now, runClosure, appendTimes, frameLast>>
gestureVars == <<classifierVars, recognitionVars>>
captionListVars == <<capMounted, generatedCaptions, videoCaptions, autoSaveStatus,
                     autoSaveTimeout, changes, writes, capLast>>
recognizerVars == <<capIsProcessing, recognitionRef, oldRecognitions, videoPlaying, recLast>>
captionVars == <<captionListVars, recognizerVars>>
translatorVars == <<trMounted, cameraPc, isRecording, liveStreams, streamRef, framesSending,
                    framesScheduled, refFramePending, translationTimeout, modelRef, uploadPc>>
studentsVars == <<studentsPc, studentsRole, studentsLast>>
\* the page components, which the database and the auth context leave alone
pageVars == <<gestureVars, captionVars, translatorVars, studentsVars>>

(***************************************************************************)
(* The database: constraints and policies of user_profiles.                *)
(***************************************************************************)
EmailOf(id) == id

Row(id, role) == [id |-> id, email |-> EmailOf(id), role |-> role]

\* CHECK (role IN ('student', 'teacher'))
RoleCheckOff(role) == TRUE

RoleCheck(role) == role \in Roles

\* id UUID PRIMARY KEY
PrimaryKeyFree(table, id) == \A r \in table : r.id # id

\* REFERENCES auth.users(id)
ForeignKeyOk(users, id) == id \in users

\* FOR SELECT USING (auth.uid() = id)
SelectPolicy(caller, row) == caller = row.id

\* FOR UPDATE USING (auth.uid() = id)
UpdatePolicy(caller, row) == caller = row.id

\* FOR INSERT WITH CHECK (auth.uid() = id): only setup.sql creates it; with row
\* level security enabled and no INSERT policy every insert is refused.
InsertPolicy(sch, caller, row) == sch = "setup" /\ caller = row.id

\* INSERT INTO user_profiles (id, email, role): the error code, or NULL
InsertError(sch, users, table, caller, row, definer) ==
  IF sch = "none" THEN "42P01"
  ELSE IF ~definer /\ ~InsertPolicy(sch, caller, row) THEN "42501"
  ELSE IF ~RoleCheck(row.role) THEN "23514"
  ELSE IF ~PrimaryKeyFree(table, row.id) THEN "23505"
  ELSE IF ~ForeignKeyOk(users, row.id) THEN "23503"
  ELSE NULL

InsertTable(sch, users, table, caller, row, definer) ==
  IF InsertError(sch, users, table, caller, row, definer) = NULL
  THEN table \cup {row} ELSE table

\* UPDATE user_profiles SET role = .. WHERE id = ..: the rows the statement reaches
UpdateMatched(table, caller, id, definer) ==
  {r \in table : r.id = id /\ (definer \/ UpdatePolicy(caller, r))}

UpdateError(sch, table, caller, id, role, definer) ==
  IF sch = "none" THEN "42P01"
  ELSE IF UpdateMatched(table, caller, id, definer) # {} /\ ~RoleCheck(role) THEN "23514"
  ELSE NULL

UpdateTable(sch, table, caller, id, role, definer) ==
  IF UpdateError(sch, table, caller, id, role, definer) = NULL
  THEN (table \ UpdateMatched(table, caller, id, definer))
        \cup {Row(r.id, role) : r \in UpdateMatched(table, caller, id, definer)}
  ELSE table

\* SELECT .. FROM user_profiles WHERE id = ..: the rows the caller sees
SelectRows(table, caller, id) == {r \in table : r.id = id /\ SelectPolicy(caller, r)}

\* handle_new_user(): INSERT INTO user_profiles VALUES (NEW.id, NEW.email, 'student')
HandleNewUserNoRow(sch, users, table, newId) == table

HandleNewUser(sch, users, table, newId) ==
  InsertTable(sch, users, table, newId, Row(newId, "student"), TRUE)

\* on_auth_user_created: AFTER INSERT ON auth.users; no script, no trigger
OnAuthUserCreated(sch, users, table, newId) ==
  IF sch = "none" THEN table ELSE HandleNewUser(sch, users, table, newId)

(***************************************************************************)
(* fetchUserRole.                                                          *)
(***************************************************************************)
Faults == {"none", "other", "throw"}

\* the outcome of .from('user_profiles').select('role').eq('id', userId).single()
LookupCode(sch, table, caller, id, fault) ==
  IF fault # "none" THEN fault
  ELSE IF sch = "none" THEN "42P01"
  ELSE IF SelectRows(table, caller, id) = {} THEN "PGRST116"
  ELSE "ok"

LookupRole(table, caller, id) ==
  IF SelectRows(table, caller, id) = {} THEN NULL
  ELSE (CHOOSE r \in SelectRows(table, caller, id) : TRUE).role

\* the value fetchUserRole resolves to
fetchUserRole(variant, code, dataRole) ==
  IF code = "ok" THEN (IF dataRole = NULL THEN "student" ELSE dataRole)
  ELSE IF code = "42P01" THEN "student"
  ELSE IF code = "PGRST116" THEN "student"
  ELSE IF code = "throw" THEN "student"
  ELSE IF variant = "part_001" THEN NULL
  ELSE "student"

\* part_001 only: the no-row branch schedules a delayed insert when getUser succeeds
SchedulesInsert(variant, code, caller) ==
  variant = "part_001" /\ code = "PGRST116" /\ caller # NoUser

\* setTimeout(async () => { ..insert.. }, 2000): every call of fetchUserRole that
\* finds no row sets a timer of its own
\* the closure holds userId and userData, the user of supabase.auth.getUser()
InsertTimer(u, caller, n) == [uid |-> u, email |-> EmailOf(caller), n |-> n]

CanScheduleInsert(timers, u, caller) ==
  \E n \in 1..MaxInsertTimers : InsertTimer(u, caller, n) \notin timers

WithInsertTimer(timers, u, caller) ==
  timers \cup {InsertTimer(u, caller,
                           CHOOSE n \in 1..MaxInsertTimers :
                             /\ InsertTimer(u, caller, n) \notin timers
                             /\ \A m \in 1..(n - 1) : InsertTimer(u, caller, m) \in timers)}

\* { id: userId, email: userData.user.email, role: 'student' }
TimerRow(t) == [id |-> t.uid, email |-> t.email, role |-> "student"]
(***************************************************************************)
(* The record of the last operation: a client operation with the user and  *)
(* role it concerned, or a statement against user_profiles with its        *)
(* caller, target row, error code and effect.                              *)
(***************************************************************************)
ClientOp(op, ok, uid, role, code) ==
  [op |-> op, ok |-> ok, uid |-> uid, id |-> NoUser, role |-> role, code |-> code,
   matched |-> 0, changed |-> FALSE]

Statement(op, caller, id, role, err, matched, changed) ==
  [op |-> op, ok |-> (err = NULL), uid |-> caller, id |-> id, role |-> role, code |-> err,
   matched |-> matched, changed |-> changed]

NoOp == ClientOp("none", TRUE, NoUser, NULL, NULL)

\* toast({variant: "destructive"}) and the rethrow of the catch blocks
Toast(l) == IF l.ok THEN "success" ELSE "destructive"
Thrown(l) == ~l.ok

\* handleSignIn of the Auth page around signInWithEmail: the catch block sets the
\* page's error message, and navigate("/") follows the await in the try block
HandleSignInError(l) == IF Thrown(l) THEN "error.message" ELSE NULL
HandleSignInNavigates(l) == ~Thrown(l)

ctxIdle == <<ctxVariant, mounted, session, user, userRole, isLoading, loadingTimers,
             initPc, authPc, authArg, signOutPc, pending, insertTimers>>

(***************************************************************************)
(* Database operations issued from outside the auth context.               *)
(***************************************************************************)
\* The SQL editor runs one of the two scripts on a project that has none yet:
\* table, policies and trigger are created; neither script inserts a row.
RunSetupScript(s) ==
  /\ schema = "none"
  /\ schema' = s
  /\ user_profiles' = {}
  /\ last' = ClientOp("runSetupScript", TRUE, NoUser, NULL, NULL)
  /\ UNCHANGED <<authUsers, sbSession>>
  /\ UNCHANGED ctxIdle
  /\ UNCHANGED <<pageVars, lateCallbacks>>

\* An authenticated caller inserts a row through the REST interface
\* (GRANT ALL ON user_profiles TO anon, authenticated).
ApiInsert(c, id, role) ==
  /\ c \in authUsers
  /\ user_profiles' = InsertTable(schema, authUsers, user_profiles, c, Row(id, role), FALSE)
  /\ last' = Statement("apiInsert", c, id, role,
                       InsertError(schema, authUsers, user_profiles, c, Row(id, role), FALSE),
                       0, user_profiles' # user_profiles)
  /\ UNCHANGED <<schema, authUsers, sbSession>>
  /\ UNCHANGED ctxIdle
  /\ UNCHANGED <<pageVars, lateCallbacks>>

\* An authenticated caller updates the role of a row (Students.tsx handleAddStudent
\* does so for the account it has just created).
ApiUpdate(c, id, role) ==
  /\ c \in authUsers
  /\ user_profiles' = UpdateTable(schema, user_profiles, c, id, role, FALSE)
  /\ last' = Statement("apiUpdate", c, id, role,
                       UpdateError(schema, user_profiles, c, id, role, FALSE),
                       Cardinality(UpdateMatched(user_profiles, c, id, FALSE)),
                       user_profiles' # user_profiles)
  /\ UNCHANGED <<schema, authUsers, sbSession>>
  /\ UNCHANGED ctxIdle
  /\ UNCHANGED <<pageVars, lateCallbacks>>

\* An authenticated caller reads the row of some user (fetchUserRole reads its
\* own, Students.tsx fetchStudents those of others).
ApiSelect(c, id) ==
  /\ c \in authUsers
  /\ schema # "none"
  /\ last' = Statement("apiSelect", c, id, NULL, NULL,
                       Cardinality(SelectRows(user_profiles, c, id)), FALSE)
  /\ UNCHANGED <<schema, authUsers, user_profiles, sbSession>>
  /\ UNCHANGED ctxIdle
  /\ UNCHANGED <<pageVars, lateCallbacks>>

\* SUPABASE_SETUP.md, "Updating User Roles": the role field is edited in the
\* dashboard's table editor, which is not subject to the policies.
DashboardUpdateRole(id, role) ==
  /\ schema # "none"
  /\ user_profiles' = UpdateTable(schema, user_profiles, NoUser, id, role, TRUE)
  /\ last' = Statement("dashboardUpdate", NoUser, id, role,
                       UpdateError(schema, user_profiles, NoUser, id, role, TRUE),
                       Cardinality(UpdateMatched(user_profiles, NoUser, id, TRUE)),
                       user_profiles' # user_profiles)
  /\ UNCHANGED <<schema, authUsers, sbSession>>
  /\ UNCHANGED ctxIdle
  /\ UNCHANGED <<pageVars, lateCallbacks>>

(***************************************************************************)
(* The auth context.                                                       *)
(***************************************************************************)
\* a state setter of an unmounted provider changes nothing
SetState(new, old) == IF mounted THEN new ELSE old

\* finally { setTimeout(() => setIsLoading(false), 1000) }, k times in one step
CanSchedule(k) == loadingTimers + k <= MaxLoadingTimers

NoArg == [uid |-> NoUser, role |-> NULL]

\* the userRole the auth listener sees: the listener is created once, by an effect
\* with no dependencies, so it reads the userRole of the first render
ListenerUserRole == NULL

\* getInitialSession after supabase.auth.getSession() has resolved
InitialSessionReturns ==
  /\ initPc = "awaitSession"
  /\ initPc' = "done"
  /\ IF sbSession # NoUser
     THEN /\ session' = SetState(sbSession, session)
          /\ user' = SetState(sbSession, user)
          /\ pending' = pending \cup {sbSession}
          /\ UNCHANGED <<userRole, loadingTimers>>
     ELSE /\ CanSchedule(1)
          /\ session' = SetState(NoUser, session)
          /\ user' = SetState(NoUser, user)
          /\ userRole' = SetState(NULL, userRole)
          /\ loadingTimers' = loadingTimers + 1
          /\ UNCHANGED pending
  /\ last' = ClientOp("getInitialSession", TRUE, NoUser, NULL, NULL)
  /\ UNCHANGED <<ctxVariant, mounted, isLoading, authPc, authArg, signOutPc, insertTimers>>
  /\ UNCHANGED dbVars
  /\ UNCHANGED <<pageVars, lateCallbacks>>

\* fetchUserRole resolves for getInitialSession or for the auth listener, which go
\* on: setUserRole(role), then the finally block
EffectRoleReturns(u, fault) ==
  /\ u \in pending
  /\ CanSchedule(1)
  /\ LET code == LookupCode(schema, user_profiles, sbSession, u, fault)
         role == fetchUserRole(ctxVariant, code, LookupRole(user_profiles, sbSession, u))
     IN /\ SchedulesInsert(ctxVariant, code, sbSession) => CanScheduleInsert(insertTimers, u, sbSession)
        /\ userRole' = SetState(role, userRole)
        /\ insertTimers' = IF SchedulesInsert(ctxVariant, code, sbSession)
                           THEN WithInsertTimer(insertTimers, u, sbSession)
                           ELSE insertTimers
        /\ last' = ClientOp("fetchUserRole", TRUE, NoUser, role, code)
  /\ pending' = pending \ {u}
  /\ loadingTimers' = loadingTimers + 1
  /\ UNCHANGED <<ctxVariant, mounted, session, user, isLoading, initPc, authPc, authArg,
                 signOutPc>>
  /\ UNCHANGED dbVars
  /\ UNCHANGED <<pageVars, lateCallbacks>>

\* fetchUserRole resolves for signInWithEmail, which goes on: setUserRole(role),
\* the success toast, then the finally block
SignInRoleReturns(fault) ==
  /\ authPc = "signInRole"
  /\ CanSchedule(1)
  /\ LET code == LookupCode(schema, user_profiles, sbSession, authArg.uid, fault)
         role == fetchUserRole(ctxVariant, code,
                               LookupRole(user_profiles, sbSession, authArg.uid))
     IN /\ SchedulesInsert(ctxVariant, code, sbSession) =>
             CanScheduleInsert(insertTimers, authArg.uid, sbSession)
        /\ userRole' = SetState(role, userRole)
        /\ insertTimers' = IF SchedulesInsert(ctxVariant, code, sbSession)
                           THEN WithInsertTimer(insertTimers, authArg.uid, sbSession)
                           ELSE insertTimers
        /\ last' = ClientOp("signIn", TRUE, authArg.uid, role, code)
  /\ authPc' = "idle"
  /\ authArg' = NoArg
  /\ loadingTimers' = loadingTimers + 1
  /\ UNCHANGED <<ctxVariant, mounted, session, user, isLoading, initPc, signOutPc, pending>>
  /\ UNCHANGED dbVars
  /\ UNCHANGED <<pageVars, lateCallbacks>>

\* the delayed insert with an error that reaches the provider's state, as the
\* errors of the listener's try block do
InsertTimerFiresUnabsorbed(t) ==
  /\ t \in insertTimers
  /\ insertTimers' = insertTimers \ {t}
  /\ user_profiles' = InsertTable(schema, authUsers, user_profiles, sbSession,
                                  TimerRow(t), FALSE)
  /\ last' = Statement("timerInsert", sbSession, t.uid, "student",
                       InsertError(schema, authUsers, user_profiles, sbSession,
                                   TimerRow(t), FALSE),
                       0, user_profiles' # user_profiles)
  /\ userRole' = IF last'.code = NULL THEN userRole ELSE NULL
  /\ UNCHANGED <<schema, authUsers, sbSession>>
  /\ UNCHANGED <<ctxVariant, mounted, session, user, isLoading, loadingTimers,
                 initPc, authPc, authArg, signOutPc, pending>>
  /\ lateCallbacks' = IF mounted THEN lateCallbacks ELSE lateCallbacks \cup {"insertTimer"}
  /\ UNCHANGED pageVars

\* the delayed insert of part_001 (setTimeout .., 2000) runs
InsertTimerFires(t) ==
  /\ t \in insertTimers
  /\ insertTimers' = insertTimers \ {t}
  /\ user_profiles' = InsertTable(schema, authUsers, user_profiles, sbSession,
                                  TimerRow(t), FALSE)
  /\ last' = Statement("timerInsert", sbSession, t.uid, "student",
                       InsertError(schema, authUsers, user_profiles, sbSession,
                                   TimerRow(t), FALSE),
                       0, user_profiles' # user_profiles)
  /\ UNCHANGED <<schema, authUsers, sbSession>>
  /\ UNCHANGED <<ctxVariant, mounted, session, user, userRole, isLoading, loadingTimers,
                 initPc, authPc, authArg, signOutPc, pending>>
  /\ lateCallbacks' = IF mounted THEN lateCallbacks ELSE lateCallbacks \cup {"insertTimer"}
  /\ UNCHANGED pageVars

\* a loading timer expires: setIsLoading(false)
LoadingTimerFires ==
  /\ loadingTimers > 0
  /\ loadingTimers' = loadingTimers - 1
  /\ isLoading' = SetState(FALSE, isLoading)
  /\ last' = ClientOp("loadingTimer", TRUE, NoUser, NULL, NULL)
  /\ UNCHANGED <<ctxVariant, mounted, session, user, userRole, initPc, authPc, authArg,
                 signOutPc, pending, insertTimers>>
  /\ UNCHANGED dbVars
  /\ lateCallbacks' = IF mounted THEN lateCallbacks ELSE lateCallbacks \cup {"loadingTimer"}
  /\ UNCHANGED pageVars

\* setUserRole(null) of the sign-out paths
KeptRole(role) == role

ClearedRole(role) == NULL

\* whether the auth listener awaits fetchUserRole for a session-carrying event
ListenerFetches(event) ==
  event = "SIGNED_IN" \/ (event = "TOKEN_REFRESHED" /\ ListenerUserRole = NULL)

\* onAuthStateChange listener, SIGNED_IN and TOKEN_REFRESHED with a session: the
\* client re-announces its session (tab focus, token refresh)
AuthEventSession(event) ==
  /\ mounted
  /\ event \in {"SIGNED_IN", "TOKEN_REFRESHED"}
  /\ sbSession # NoUser
  /\ session' = sbSession
  /\ user' = sbSession
  /\ IF ListenerFetches(event)
     THEN /\ pending' = pending \cup {sbSession}
          /\ UNCHANGED loadingTimers
     ELSE /\ CanSchedule(1)
          /\ loadingTimers' = loadingTimers + 1
          /\ UNCHANGED pending
  /\ last' = ClientOp(event, TRUE, NoUser, NULL, NULL)
  /\ UNCHANGED <<ctxVariant, mounted, userRole, isLoading, initPc, authPc, authArg,
                 signOutPc, insertTimers>>
  /\ UNCHANGED dbVars
  /\ UNCHANGED <<pageVars, lateCallbacks>>

\* onAuthStateChange listener, SIGNED_OUT: the session ended outside this
\* provider (expiry, sign-out in another tab)
AuthEventSignedOut ==
  /\ mounted
  /\ sbSession # NoUser
  /\ CanSchedule(1)
  /\ sbSession' = NoUser
  /\ session' = NoUser
  /\ user' = NoUser
  /\ userRole' = ClearedRole(userRole)
  /\ loadingTimers' = loadingTimers + 1
  /\ last' = ClientOp("SIGNED_OUT", TRUE, NoUser, NULL, NULL)
  /\ UNCHANGED <<ctxVariant, mounted, isLoading, initPc, authPc, authArg, signOutPc,
                 pending, insertTimers>>
  /\ UNCHANGED <<schema, authUsers, user_profiles>>
  /\ UNCHANGED <<pageVars, lateCallbacks>>
\* signInWithEmail up to its first await
SignInCall(u) ==
  /\ mounted
  /\ authPc = "idle"
  /\ authPc' = "signInAuth"
  /\ authArg' = [uid |-> u, role |-> NULL]
  /\ isLoading' = TRUE
  /\ last' = NoOp
  /\ UNCHANGED <<ctxVariant, mounted, session, user, userRole, loadingTimers, initPc,
                 signOutPc, pending, insertTimers>>
  /\ UNCHANGED dbVars
  /\ UNCHANGED <<pageVars, lateCallbacks>>

\* the catch block resetting the state as the listener's catch block does
SignInFailsResetsState ==
  /\ authPc = "signInAuth"
  /\ CanSchedule(1)
  /\ authPc' = "idle"
  /\ authArg' = NoArg
  /\ loadingTimers' = loadingTimers + 1
  /\ session' = NoUser
  /\ user' = NoUser
  /\ userRole' = NULL
  /\ last' = ClientOp("signIn", FALSE, authArg.uid, NULL, NULL)
  /\ UNCHANGED <<ctxVariant, mounted, isLoading, initPc, signOutPc, pending, insertTimers>>
  /\ UNCHANGED dbVars
  /\ UNCHANGED <<pageVars, lateCallbacks>>

\* signInWithPassword returned an error: toast, rethrow, finally
SignInFails ==
  /\ authPc = "signInAuth"
  /\ CanSchedule(1)
  /\ authPc' = "idle"
  /\ authArg' = NoArg
  /\ loadingTimers' = loadingTimers + 1
  /\ last' = ClientOp("signIn", FALSE, authArg.uid, NULL, NULL)
  /\ UNCHANGED <<ctxVariant, mounted, session, user, userRole, isLoading, initPc,
                 signOutPc, pending, insertTimers>>
  /\ UNCHANGED dbVars
  /\ UNCHANGED <<pageVars, lateCallbacks>>

\* signInWithPassword returned a session: the client holds it and tells its
\* listener SIGNED_IN, then signInWithEmail sets session and user and awaits
\* fetchUserRole
SignInAuthReturns ==
  /\ authPc = "signInAuth"
  /\ authArg.uid \in authUsers
  /\ authPc' = "signInRole"
  /\ sbSession' = authArg.uid
  /\ session' = SetState(authArg.uid, session)
  /\ user' = SetState(authArg.uid, user)
  /\ pending' = IF mounted THEN pending \cup {authArg.uid} ELSE pending
  /\ last' = NoOp
  /\ UNCHANGED <<ctxVariant, mounted, userRole, isLoading, loadingTimers, initPc, authArg,
                 signOutPc, insertTimers>>
  /\ UNCHANGED <<schema, authUsers, user_profiles>>
  /\ UNCHANGED <<pageVars, lateCallbacks>>

\* signUpWithEmail up to its await; SignUp.tsx passes no role
SignUpCall(u, role) ==
  /\ mounted
  /\ authPc = "idle"
  /\ authPc' = "signUp"
  /\ authArg' = [uid |-> u, role |-> role]
  /\ isLoading' = TRUE
  /\ last' = NoOp
  /\ UNCHANGED <<ctxVariant, mounted, session, user, userRole, loadingTimers, initPc,
                 signOutPc, pending, insertTimers>>
  /\ UNCHANGED dbVars
  /\ UNCHANGED <<pageVars, lateCallbacks>>

\* the trigger of setup.sql has no exception handler: a failing insert fails the
\* sign-up; the one of supabase_setup.sql swallows it
TriggerAborts(sch, users, table, newId) ==
  /\ sch = "setup"
  /\ InsertError(sch, users, table, newId, Row(newId, "student"), TRUE) # NULL

\* supabase.auth.signUp returned an error (the address is registered, the trigger
\* failed, ..): toast, rethrow, finally
SignUpFails ==
  /\ authPc = "signUp"
  /\ CanSchedule(1)
  /\ authPc' = "idle"
  /\ authArg' = NoArg
  /\ loadingTimers' = loadingTimers + 1
  /\ last' = ClientOp("signUp", FALSE, NoUser, NULL, NULL)
  /\ UNCHANGED <<ctxVariant, mounted, session, user, userRole, isLoading, initPc,
                 signOutPc, pending, insertTimers>>
  /\ UNCHANGED dbVars
  /\ UNCHANGED <<pageVars, lateCallbacks>>

\* supabase.auth.signUp created the auth user: the trigger runs in the same
\* transaction, then signUpWithEmail sets the role it was given
SignUpReturns ==
  /\ authPc = "signUp"
  /\ authArg.uid \notin authUsers
  /\ ~TriggerAborts(schema, authUsers \cup {authArg.uid}, user_profiles, authArg.uid)
  /\ CanSchedule(1)
  /\ authPc' = "idle"
  /\ authArg' = NoArg
  /\ authUsers' = authUsers \cup {authArg.uid}
  /\ user_profiles' = OnAuthUserCreated(schema, authUsers', user_profiles, authArg.uid)
  /\ userRole' = SetState(authArg.role, userRole)
  /\ loadingTimers' = loadingTimers + 1
  /\ last' = ClientOp("signUp", TRUE, authArg.uid, authArg.role, NULL)
  /\ UNCHANGED <<ctxVariant, mounted, session, user, isLoading, initPc, signOutPc,
                 pending, insertTimers>>
  /\ UNCHANGED <<schema, sbSession>>
  /\ UNCHANGED <<pageVars, lateCallbacks>>

\* signOut up to its await: AuthContext.tsx clears the state first, part_001 only
\* after the provider's call
SignOutCall ==
  /\ mounted
  /\ signOutPc = "idle"
  /\ user # NoUser
  /\ signOutPc' = "awaitSignOut"
  /\ isLoading' = TRUE
  /\ IF ctxVariant = "AuthContext"
     THEN session' = NoUser /\ user' = NoUser /\ userRole' = ClearedRole(userRole)
     ELSE UNCHANGED <<session, user, userRole>>
  /\ last' = NoOp
  /\ UNCHANGED <<ctxVariant, mounted, loadingTimers, initPc, authPc, authArg, pending,
                 insertTimers>>
  /\ UNCHANGED dbVars
  /\ UNCHANGED <<pageVars, lateCallbacks>>

\* supabase.auth.signOut returned an error: toast, rethrow, finally
SignOutFails ==
  /\ signOutPc = "awaitSignOut"
  /\ CanSchedule(1)
  /\ signOutPc' = "idle"
  /\ loadingTimers' = loadingTimers + 1
  /\ last' = ClientOp("signOut", FALSE, NoUser, NULL, NULL)
  /\ UNCHANGED <<ctxVariant, mounted, session, user, userRole, isLoading, initPc, authPc,
                 authArg, pending, insertTimers>>
  /\ UNCHANGED dbVars
  /\ UNCHANGED <<pageVars, lateCallbacks>>

\* supabase.auth.signOut succeeded in AuthContext.tsx: window.location.href = '/'
\* loads the page anew, with a new provider and none of the old callbacks
SignOutReloads ==
  /\ signOutPc = "awaitSignOut"
  /\ ctxVariant = "AuthContext"
  /\ sbSession' = NoUser
  /\ mounted' = TRUE
  /\ session' = NoUser
  /\ user' = NoUser
  /\ userRole' = ClearedRole(userRole)
  /\ isLoading' = TRUE
  /\ loadingTimers' = 0
  /\ initPc' = "awaitSession"
  /\ authPc' = "idle"
  /\ authArg' = NoArg
  /\ signOutPc' = "idle"
  /\ pending' = {}
  /\ insertTimers' = {}
  /\ last' = ClientOp("signOut", TRUE, NoUser, NULL, NULL)
  /\ UNCHANGED ctxVariant
  /\ UNCHANGED <<schema, authUsers, user_profiles>>
  /\ UNCHANGED <<pageVars, lateCallbacks>>

\* supabase.auth.signOut succeeded in part_001: the listener handles SIGNED_OUT,
\* then signOut clears the state, toasts, and runs its finally block
SignOutReturns ==
  /\ signOutPc = "awaitSignOut"
  /\ ctxVariant = "part_001"
  /\ CanSchedule(IF mounted THEN 2 ELSE 1)
  /\ sbSession' = NoUser
  /\ session' = SetState(NoUser, session)
  /\ user' = SetState(NoUser, user)
  /\ userRole' = SetState(ClearedRole(userRole), userRole)
  /\ loadingTimers' = loadingTimers + (IF mounted THEN 2 ELSE 1)
  /\ signOutPc' = "idle"
  /\ last' = ClientOp("signOut", TRUE, NoUser, NULL, NULL)
  /\ UNCHANGED <<ctxVariant, mounted, isLoading, initPc, authPc, authArg, pending,
                 insertTimers>>
  /\ UNCHANGED <<schema, authUsers, user_profiles>>
  /\ UNCHANGED <<pageVars, lateCallbacks>>

\* the provider unmounts: the effect's cleanup unsubscribes the listener
Unmount ==
  /\ mounted
  /\ mounted' = FALSE
  /\ last' = ClientOp("unmount", TRUE, NoUser, NULL, NULL)
  /\ UNCHANGED <<ctxVariant, session, user, userRole, isLoading, loadingTimers, initPc,
                 authPc, authArg, signOutPc, pending, insertTimers>>
  /\ UNCHANGED dbVars
  /\ UNCHANGED <<pageVars, lateCallbacks>>

(***************************************************************************)
(* The Students page.                                                      *)
(***************************************************************************)
\* the user the client holds a session of has a profile with the role 'teacher'
SignedInTeacher ==
  /\ sbSession # NoUser
  /\ \E r \in user_profiles : r.id = sbSession /\ r.role = "teacher"

\* the first effect: if (userRole !== 'teacher') navigate("/")
Redirects(role) == role # "teacher"

\* the second effect: if (userRole === 'teacher') fetchStudents()
Queries(role) == role = "teacher"

\* a run of the two effects with the userRole of the context
StudentsEffects(op) ==
  /\ studentsRole' = userRole
  /\ studentsPc' = IF Redirects(userRole) THEN "redirected" ELSE "open"
  /\ studentsLast' = [op |-> op, userRole |-> userRole, loading |-> isLoading,
                      teacher |-> SignedInTeacher,
                      redirected |-> Redirects(userRole), queried |-> Queries(userRole)]
  /\ UNCHANGED <<dbVars, ctxVars, gestureVars, captionVars, translatorVars, lateCallbacks>>

\* the Students page is opened and mounts: both effects run
OpenStudents ==
  /\ mounted
  /\ studentsPc # "open"
  /\ StudentsEffects("mount")

\* the context's userRole has changed while the page is open: it renders again and
\* the effects, which depend on userRole, run again
StudentsRender ==
  /\ mounted
  /\ studentsPc = "open"
  /\ studentsRole # userRole
  /\ StudentsEffects("update")

(***************************************************************************)
(* The gesture classifier and the translation table of the sign-language   *)
(* translator.  A landmark is a point [x, y] on a grid whose step is half  *)
(* of the classifier's lower threshold (0.05), so 0.1 is NearSteps steps   *)
(* and 0.2 is FarSteps steps; distances are compared by their squares.     *)
(***************************************************************************)
MaxCoordX == 5
MaxCoordY == 1
MaxGestures == 3

NearSteps == 2
FarSteps == 4

ThumbTip == 4
IndexTip == 8
MiddleTip == 12
RingTip == 16
PinkyTip == 20
Wrist == 0

Points == [x : 0..MaxCoordX, y : 0..MaxCoordY]
\* the points the landmarks other than the three tips are put at
OtherPoints == {[x |-> 0, y |-> 0], [x |-> MaxCoordX, y |-> MaxCoordY]}

\* landmarks[i] of a JavaScript array: sequences count from 1
At(list, i) == list[i + 1]
Defined(list, i) == i + 1 \in DOMAIN list

\* a hand as MediaPipe reports it: landmarks 0 .. PinkyTip
Hand(thumb, index, middle, other) ==
  [i \in 1..(PinkyTip + 1) |->
     IF i = ThumbTip + 1 THEN thumb
     ELSE IF i = IndexTip + 1 THEN index
     ELSE IF i = MiddleTip + 1 THEN middle
     ELSE other]

\* the inputs: whole hands, the empty list, and a list too short to hold the tips
LandmarkLists ==
  {Hand(t, i, m, o) : t \in Points, i \in Points, m \in Points, o \in OtherPoints}
    \cup {<<>>} \cup {<<o>> : o \in OtherPoints}

\* the list with landmarks[i] moved to the point p, every other landmark kept
WithLandmark(list, i, p) == [list EXCEPT ![i + 1] = p]

\* the landmarks detectGesture reads besides the thumb tip
ReadLandmarks == {IndexTip, MiddleTip, RingTip, PinkyTip, Wrist}

Sq(n) == n * n

\* Math.pow(p.x - q.x, 2) + Math.pow(p.y - q.y, 2), in squared grid steps
Dist2(p, q) == Sq(p.x - q.x) + Sq(p.y - q.y)

\* the table with the far threshold of "B" included (>= 0.2)
ClassifyFarInclusive(thumbIndex2, thumbMiddle2) ==
  IF thumbIndex2 < Sq(NearSteps) /\ thumbMiddle2 < Sq(NearSteps) THEN "A"
  ELSE IF thumbIndex2 >= Sq(FarSteps) /\ thumbMiddle2 < Sq(NearSteps) THEN "B"
  ELSE IF thumbIndex2 < Sq(NearSteps) /\ thumbMiddle2 > Sq(FarSteps) THEN "C"
  ELSE IF thumbIndex2 > Sq(FarSteps) /\ thumbMiddle2 > Sq(FarSteps) THEN "D"
  ELSE NULL

\* the if/else table over the two distances
Classify(thumbIndex2, thumbMiddle2) ==
  IF thumbIndex2 < Sq(NearSteps) /\ thumbMiddle2 < Sq(NearSteps) THEN "A"
  ELSE IF thumbIndex2 > Sq(FarSteps) /\ thumbMiddle2 < Sq(NearSteps) THEN "B"
  ELSE IF thumbIndex2 < Sq(NearSteps) /\ thumbMiddle2 > Sq(FarSteps) THEN "C"
  ELSE IF thumbIndex2 > Sq(FarSteps) /\ thumbMiddle2 > Sq(FarSteps) THEN "D"
  ELSE NULL

\* the classifier reading the ring tip where the code reads the middle tip
detectGestureRingTip(list) ==
  IF Len(list) = 0 THEN NULL
  ELSE IF ~(Defined(list, ThumbTip) /\ Defined(list, IndexTip) /\ Defined(list, RingTip))
       THEN "TypeError"
  ELSE Classify(Dist2(At(list, ThumbTip), At(list, IndexTip)),
                Dist2(At(list, ThumbTip), At(list, RingTip)))

\* detectGesture: null for no landmarks; reading .x of a tip the list does not
\* hold throws
detectGesture(list) ==
  IF Len(list) = 0 THEN NULL
  ELSE IF ~(Defined(list, ThumbTip) /\ Defined(list, IndexTip) /\ Defined(list, MiddleTip))
       THEN "TypeError"
  ELSE Classify(Dist2(At(list, ThumbTip), At(list, IndexTip)),
                Dist2(At(list, ThumbTip), At(list, MiddleTip)))

\* the tables local to getTranslationFromGestures
gestureToText ==
  [A |-> "Hello", B |-> "Thank you", C |-> "Please", D |-> "Goodbye", E |-> "Yes",
   F |-> "No", G |-> "Help", H |-> "Water", I |-> "Food", J |-> "Bathroom"]

gestureSequences ==
  [AB |-> "Hello, thank you", AC |-> "Hello, please", AD |-> "Hello, goodbye",
   AE |-> "Hello, yes", AF |-> "Hello, no"]

\* table[key] of a JavaScript object: undefined (NULL here) for a key it lacks
Lookup(table, key) == IF key \in DOMAIN table THEN table[key] ELSE NULL

\* gestures.slice(-2)
LastTwo(list) == IF Len(list) <= 2 THEN list ELSE SubSeq(list, Len(list) - 1, Len(list))

\* list.join("")
RECURSIVE Join(_)
Join(list) == IF list = <<>> THEN "" ELSE Head(list) \o Join(Tail(list))

\* gestures[gestures.length - 1]: undefined for the empty list, and as a key
\* undefined reads "undefined"
LastGestureKey(list) == IF list = <<>> THEN "undefined" ELSE list[Len(list)]

\* the sequence table of the component body, which the function's local table hides
componentGestureSequences ==
  [AB |-> "Hello, thank you", BC |-> "Thank you, please", CD |-> "Please, goodbye",
   ABC |-> "Hello, thank you, please", BCD |-> "Thank you, please, goodbye",
   ABCD |-> "Hello, thank you, please, goodbye", AE |-> "Hello, yes",
   AF |-> "Hello, no", AG |-> "Hello, help", AH |-> "Hello, water",
   AI |-> "Hello, food", AJ |-> "Hello, bathroom"]

\* the translation looking sequences up in the component's table
getTranslationComponentTable(list) ==
  IF Lookup(componentGestureSequences, Join(LastTwo(list))) # NULL
  THEN Lookup(componentGestureSequences, Join(LastTwo(list)))
  ELSE IF Lookup(gestureToText, LastGestureKey(list)) # NULL
       THEN Lookup(gestureToText, LastGestureKey(list))
       ELSE "Unknown gesture"

\* the translation without the "Unknown gesture" default
getTranslationNoDefault(list) ==
  IF Lookup(gestureSequences, Join(LastTwo(list))) # NULL
  THEN Lookup(gestureSequences, Join(LastTwo(list)))
  ELSE Lookup(gestureToText, LastGestureKey(list))

getTranslationFromGestures(list) ==
  IF Lookup(gestureSequences, Join(LastTwo(list))) # NULL
  THEN Lookup(gestureSequences, Join(LastTwo(list)))
  ELSE IF Lookup(gestureToText, LastGestureKey(list)) # NULL
       THEN Lookup(gestureToText, LastGestureKey(list))
       ELSE "Unknown gesture"

\* the gestures the lists are made of: the classifier's, one only the table knows,
\* and one neither knows
GestureNames == {"A", "B", "C", "D", "E", "K"}

RECURSIVE ListsUpTo(_, _)
ListsUpTo(S, n) ==
  IF n = 0 THEN {<<>>}
  ELSE ListsUpTo(S, n - 1) \cup
       {Append(l, g) : l \in {k \in ListsUpTo(S, n - 1) : Len(k) = n - 1}, g \in S}

GestureLists == ListsUpTo(GestureNames, MaxGestures)

\* detectGesture(landmarks) is called
DetectGesture ==
  /\ detected = "pending"
  /\ detected' = detectGesture(landmarks)
  /\ UNCHANGED <<landmarks, gestures, translation>>
  /\ UNCHANGED <<dbVars, ctxVars, studentsVars, recognitionVars, captionVars, translatorVars, lateCallbacks>>

\* getTranslationFromGestures(gestures) is called
GetTranslation ==
  /\ translation = "pending"
  /\ translation' = getTranslationFromGestures(gestures)
  /\ UNCHANGED <<landmarks, detected, gestures>>
  /\ UNCHANGED <<dbVars, ctxVars, studentsVars, recognitionVars, captionVars, translatorVars, lateCallbacks>>

(***************************************************************************)
(* The caption auto-save of the video captioner.  Times are in tenths of a *)
(* second: a caption starts transcript.length * 0.1 s before the playback  *)
(* time at which it was recognized.                                        *)
(***************************************************************************)
MaxCaptions == 2
MaxBurst == 3
MaxMinutes == 1

\* video.currentTime when a result arrives
VideoTimes == {0, 650}
Transcripts == {"hi", "hello"}
EditedTexts == {"ok"}
\* what the caption's text area can also hold: nothing, and two lines with a blank
\* line between them
BlankLineText == "a\n\nb"
TypedTexts == {"", BlankLineText}

CaptionEntry(text, startTime, endTime, isEdited) ==
  [text |-> text, startTime |-> startTime, endTime |-> endTime, isEdited |-> isEdited]

\* a % b of JavaScript: the remainder has the sign of a
JsRem(a, b) == IF a >= 0 THEN a % b ELSE 0 - ((0 - a) % b)

\* s.padStart(2, '0')
PadStart2(s) == IF Len(s) < 2 THEN "0" \o s ELSE s

\* formatTime(seconds): `${floor(seconds / 60)}:${floor(seconds % 60) padded}`
formatTime(t) ==
  ToString(t \div 600) \o ":" \o PadStart2(ToString(JsRem(t, 600) \div 10))

\* `[${formatTime(startTime)} - ${formatTime(endTime)}] ${text}`, kept as the
\* sequence of its parts
NoteLine(c) ==
  <<"[", formatTime(c.startTime), " - ", formatTime(c.endTime), "] ", c.text>>

\* notesText: the lines, which the code joins with "\n\n"
NotesText(list) == [i \in DOMAIN list |-> NoteLine(list[i])]

\* text.split('\n\n') for the texts of the model
SplitBlankLines(text) == IF text = BlankLineText THEN <<"a", "b">> ELSE <<text>>

\* savedCaptions.split('\n\n'): the lines were joined with "\n\n", and a text with
\* a blank line is split as well; its first part stays with the line's head
SplitLine(line) ==
  [i \in DOMAIN SplitBlankLines(line[6]) |->
     IF i = 1 THEN [line EXCEPT ![6] = SplitBlankLines(line[6])[1]]
     ELSE <<SplitBlankLines(line[6])[i]>>]

RECURSIVE SplitSaved(_)
SplitSaved(lines) ==
  IF lines = <<>> THEN <<>> ELSE SplitLine(Head(lines)) \o SplitSaved(Tail(lines))

\* the strings \d+:\d+ matches among those of the form formatTime gives
TimeStrings ==
  {ToString(m) \o ":" \o PadStart2(ToString(sec)) : m \in 0..MaxMinutes, sec \in 0..59}

\* line.match(/\[(\d+:\d+) - (\d+:\d+)\] (.+)/) is not null
Matches(piece) ==
  /\ Len(piece) = 6
  /\ piece[1] = "[" /\ piece[2] \in TimeStrings
  /\ piece[3] = " - " /\ piece[4] \in TimeStrings
  /\ piece[5] = "] " /\ piece[6] # ""

\* convertTimeToSeconds(timeString): split(':').map(Number), minutes * 60 + seconds;
\* in tenths of a second
convertTimeToSeconds(timeString) ==
  LET parts == CHOOSE parts \in (0..MaxMinutes) \X (0..59) :
                 timeString = ToString(parts[1]) \o ":" \o PadStart2(ToString(parts[2]))
  IN (parts[1] * 60 + parts[2]) * 10

\* .map(line => match ? {...} : null).filter(Boolean)
RECURSIVE ParsedCaptions(_)
ParsedCaptions(pieces) ==
  IF pieces = <<>> THEN <<>>
  ELSE IF Matches(Head(pieces))
  THEN <<CaptionEntry(Head(pieces)[6], convertTimeToSeconds(Head(pieces)[2]),
                      convertTimeToSeconds(Head(pieces)[4]), TRUE)>>
       \o ParsedCaptions(Tail(pieces))
  ELSE ParsedCaptions(Tail(pieces))

\* the effect that loads the saved captions: the list it sets, [] if it sets none
LoadedCaptions(stored) == ParsedCaptions(SplitSaved(stored))

\* the auto-save that leaves the write to the timer
autoSaveCaptionsDeferred(list, stored) == stored

\* autoSaveCaptions: the value of 'videoCaptions' after the call
autoSaveCaptions(list, stored) == IF Len(list) = 0 THEN stored ELSE NotesText(list)

\* the fallback captions of generateCaptions
simulatedCaptions ==
  << "This is a simulated caption for demonstration purposes.",
     "In a real implementation, this would be replaced with actual speech-to-text results.",
     "The captions would be synchronized with the video playback." >>

SimulatedEntries ==
  [i \in DOMAIN simulatedCaptions |->
     CaptionEntry(simulatedCaptions[i], (i - 1) * 50, i * 50, FALSE)]

\* onresult, one final result: the previous caption ends where the new one starts
WithResult(list, transcript, currentTime) ==
  LET entry == CaptionEntry(transcript, currentTime - Len(transcript), currentTime, FALSE)
      ended == IF list = <<>> THEN list
               ELSE [list EXCEPT ![Len(list)].endTime = entry.startTime]
  IN Append(ended, entry)

\* handleCaptionEdit(index, newText), index counted from 0
WithEdit(list, index, newText) ==
  [list EXCEPT ![index + 1].text = newText, ![index + 1].isEdited = TRUE]

\* A render commits a new caption list and the effect on [generatedCaptions] runs
\* autoSaveCaptions: nothing for an empty list, else the write, the status and the
\* restart of the 2 s timer that clears the status.
CommitCaptions(op, list) ==
  /\ capMounted
  /\ (list # <<>> => changes < MaxBurst)
  /\ generatedCaptions' = list
  /\ videoCaptions' = autoSaveCaptions(list, videoCaptions)
  /\ IF list = <<>>
     THEN UNCHANGED <<autoSaveStatus, autoSaveTimeout, changes, writes>>
     ELSE /\ autoSaveStatus' = "Auto-saved"
          /\ autoSaveTimeout' = TRUE
          /\ changes' = changes + 1
          /\ writes' = writes + 1
  /\ capLast' = [op |-> op, wrote |-> list # <<>>]
  /\ UNCHANGED capMounted
  /\ UNCHANGED <<dbVars, ctxVars, studentsVars, gestureVars, translatorVars, lateCallbacks>>

\* recognition.onresult delivers a final transcript
RecognitionResult(transcript, currentTime) ==
  /\ Len(generatedCaptions) < MaxCaptions
  /\ CommitCaptions("onresult", WithResult(generatedCaptions, transcript, currentTime))
  /\ UNCHANGED recognizerVars

\* the user edits the text of a caption
HandleCaptionEdit(index, newText) ==
  /\ index + 1 \in DOMAIN generatedCaptions
  /\ CommitCaptions("handleCaptionEdit", WithEdit(generatedCaptions, index, newText))
  /\ UNCHANGED recognizerVars

\* a SpeechRecognition object: the isProcessing its onend handler closes over, and
\* "idle" (not started, or ended), "running", or "ending" (stopped, onend to come)
Recognition(closure, state) == [isProcessing |-> closure, state |-> state]

\* recognitionRef.current is null: the browser has no speech recognition
NoRecognition == Recognition(FALSE, "none")

\* recognition.start(); on a recognizer that is not idle it throws
Started(r) == [r EXCEPT !.state = "running"]

\* recognition.stop(): a running recognizer ends, and its onend is to come
Stopped(r) == IF r.state = "running" THEN [r EXCEPT !.state = "ending"] ELSE r

\* the recognizers that can still deliver onend
Recognitions == oldRecognitions \cup {recognitionRef}

RecOp(op, restarted) == [op |-> op, processing |-> capIsProcessing, restarted |-> restarted]

\* the effect with the dependencies [isProcessing] runs again after a render with
\* another isProcessing: its cleanup stops the recognizer of recognitionRef, then a
\* new recognizer is created, which nothing starts, and put into recognitionRef
EffectRecognition(ref, processing) ==
  IF processing = capIsProcessing \/ ref = NoRecognition THEN ref
  ELSE Recognition(processing, "idle")

EffectOldRecognitions(ref, processing) ==
  IF processing = capIsProcessing \/ Stopped(ref).state # "ending" THEN oldRecognitions
  ELSE oldRecognitions \cup {Stopped(ref)}

\* generateCaptions (its button is disabled while isProcessing): the list is
\* emptied; without speech recognition it is set to the simulated captions and the
\* video plays; else, with an audio track, the recognizer of recognitionRef is
\* started and the video plays, and without one the catch block resets isProcessing.
\* The render that follows runs the effect again if isProcessing has changed.
GenerateCaptions(recognitionAvailable, audioTrack) ==
  /\ capMounted
  /\ ~capIsProcessing
  /\ recognitionAvailable <=> recognitionRef # NoRecognition
  /\ CommitCaptions("generateCaptions",
                    IF recognitionAvailable THEN <<>> ELSE SimulatedEntries)
  /\ IF recognitionAvailable /\ ~(audioTrack /\ recognitionRef.state = "idle")
     THEN /\ recLast' = RecOp("generateCaptionsError", FALSE)
          /\ UNCHANGED <<capIsProcessing, recognitionRef, oldRecognitions, videoPlaying>>
     ELSE /\ capIsProcessing' = TRUE
          /\ videoPlaying' = TRUE
          /\ recognitionRef' =
               IF recognitionAvailable THEN EffectRecognition(Started(recognitionRef), TRUE)
               ELSE recognitionRef
          /\ oldRecognitions' =
               IF recognitionAvailable
               THEN EffectOldRecognitions(Started(recognitionRef), TRUE)
               ELSE oldRecognitions
          /\ recLast' = RecOp("generateCaptions", FALSE)

\* video.onended: the recognizer of recognitionRef is stopped, setIsProcessing(false)
VideoEnded ==
  /\ capMounted
  /\ videoPlaying
  /\ videoPlaying' = FALSE
  /\ capIsProcessing' = FALSE
  /\ recognitionRef' = EffectRecognition(Stopped(recognitionRef), FALSE)
  /\ oldRecognitions' = EffectOldRecognitions(Stopped(recognitionRef), FALSE)
  /\ recLast' = RecOp("onended", FALSE)
  /\ UNCHANGED captionListVars
  /\ UNCHANGED <<dbVars, ctxVars, studentsVars, gestureVars, translatorVars, lateCallbacks>>

\* the recognizer r ends, of itself or after stop(); its onend starts the recognizer
\* of recognitionRef if the isProcessing it closes over is true
RecognitionEnds(r) ==
  /\ r \in Recognitions
  /\ r.state \in {"running", "ending"}
  /\ LET ended == [r EXCEPT !.state = "idle"]
         ref == IF r = recognitionRef THEN ended ELSE recognitionRef
         restarts == r.isProcessing /\ ref.state = "idle"
     IN /\ recognitionRef' = IF restarts THEN Started(ref) ELSE ref
        /\ oldRecognitions' = oldRecognitions \ {r}
        /\ recLast' = RecOp("onend", restarts)
  /\ UNCHANGED <<capIsProcessing, videoPlaying>>
  /\ UNCHANGED captionListVars
  /\ UNCHANGED <<dbVars, ctxVars, studentsVars, gestureVars, translatorVars, lateCallbacks>>

\* the timer of autoSaveTimeoutRef expires: setAutoSaveStatus("")
AutoSaveTimeoutFires ==
  /\ autoSaveTimeout
  /\ autoSaveTimeout' = FALSE
  /\ autoSaveStatus' = IF capMounted THEN "" ELSE autoSaveStatus
  /\ changes' = 0
  /\ writes' = 0
  /\ capLast' = [op |-> "autoSaveTimeout", wrote |-> FALSE]
  /\ lateCallbacks' = IF capMounted THEN lateCallbacks
                      ELSE lateCallbacks \cup {"autoSaveTimeout"}
  /\ UNCHANGED <<capMounted, generatedCaptions, videoCaptions>>
  /\ UNCHANGED recognizerVars
  /\ UNCHANGED <<dbVars, ctxVars, studentsVars, gestureVars, translatorVars>>

\* the captioner unmounts: the only cleanup stops the speech recognition
CaptionerUnmount ==
  /\ capMounted
  /\ capMounted' = FALSE
  /\ capLast' = [op |-> "unmount", wrote |-> FALSE]
  /\ recognitionRef' = Stopped(recognitionRef)
  /\ videoPlaying' = FALSE
  /\ recLast' = RecOp("unmount", FALSE)
  /\ UNCHANGED <<capIsProcessing, oldRecognitions>>
  /\ UNCHANGED <<generatedCaptions, videoCaptions, autoSaveStatus, autoSaveTimeout,
                 changes, writes>>
  /\ UNCHANGED <<dbVars, ctxVars, studentsVars, gestureVars, translatorVars, lateCallbacks>>

(***************************************************************************)
(* The camera, the frame loops and the timers of the sign-language         *)
(* translator, and its teardown.                                           *)
(***************************************************************************)
MaxFrameLoops == 2
MaxStreams == 2
MaxDetected == 2
MaxTicks == 3

\* useState cameraEnabled: set once getUserMedia has returned, reset by the catch
\* block and by the disabling branch
cameraEnabled == cameraPc \in {"awaitRender", "awaitPlay", "on"}

\* videoRef.current: the video element is rendered while the camera is enabled
videoRef == trMounted /\ cameraEnabled

\* the callbacks that run although their component is torn down
Late(isMounted, callback) ==
  IF isMounted THEN lateCallbacks ELSE lateCallbacks \cup {callback}

\* processVideoFrame() is called: it returns at once without the video element,
\* else it awaits handModel.send
FramesAfterCall == IF videoRef THEN framesSending + 1 ELSE framesSending

\* cancelAnimationFrame(animationFrameRef.current)
FramesAfterCancel == IF refFramePending THEN framesScheduled - 1 ELSE framesScheduled

GESTURE_DEBOUNCE_TIME == 1000

\* Date.now() when the page is opened: later than the debounce time after the epoch
StartTime == 2 * GESTURE_DEBOUNCE_TIME
\* the time between two frames looked at
Tick == GESTURE_DEBOUNCE_TIME \div 2

\* the hands of the frames: thumb, index and middle tip together ("A"), the index
\* tip far ("B"), the index tip between the thresholds (no gesture)
FrameHands ==
  {Hand([x |-> 0, y |-> 0], [x |-> i, y |-> 0], [x |-> 0, y |-> 0], [x |-> 0, y |-> 0]) :
     i \in {0, FarSteps - 1, FarSteps + 1}}

\* results.multiHandLandmarks is empty
NoHand == <<>>

\* the state the recognition of gestures reads and sets
RecognitionState ==
  [detectedGestures |-> detectedGestures, currentGesture |-> currentGesture,
   lastGestureTime |-> lastGestureTime, translatedText |-> translatedText,
   handResults |-> handResults, appendTimes |-> appendTimes]

SetRecognition(st) ==
  /\ detectedGestures' = st.detectedGestures
  /\ currentGesture' = st.currentGesture
  /\ lastGestureTime' = st.lastGestureTime
  /\ translatedText' = st.translatedText
  /\ handResults' = st.handResults
  /\ appendTimes' = st.appendTimes

\* the listener hands.onResults is registered once, by the effect with the
\* dependencies []: it closes over the state of the first render
ListenerCurrentGesture == NULL
ListenerDetectedGestures == <<>>

\* the listener's test whether the gesture is a new one
IsNewGesture(gesture) == gesture # NULL /\ gesture # ListenerCurrentGesture

\* the append of an upload frame is recorded with its time
Appended(times, ofRun) == IF ofRun THEN Append(times, now) ELSE times

\* hands.onResults((results) => ...): the listener, run by every send
onResults(st, hand, ofRun) ==
  IF hand = NoHand THEN [st EXCEPT !.handResults = FALSE]
  ELSE IF IsNewGesture(detectGesture(hand))
  THEN [st EXCEPT !.handResults = TRUE,
                  !.currentGesture = detectGesture(hand),
                  !.detectedGestures = Append(@, detectGesture(hand)),
                  !.translatedText =
                     getTranslationFromGestures(
                       Append(ListenerDetectedGestures, detectGesture(hand))),
                  !.appendTimes = Appended(@, ofRun)]
  ELSE [st EXCEPT !.handResults = TRUE]

\* what await modelRef.current.send(...) gives processFrame: the results, which
\* the code casts the value to; undefined, the value of a promise of void; or an
\* exception
SendOutcomes == {"results", "undefined", "throws"}

\* processFrame's test of the debounce time, against the time of its closure
DebounceElapsed(closure) == now - closure.lastGestureTime >= GESTURE_DEBOUNCE_TIME

\* finalTranslation || "Video processing completed. No gestures detected."
FinalText(finalTranslation) ==
  IF finalTranslation = "" THEN "Video processing completed. No gestures detected."
  ELSE finalTranslation

\* processFrame after the await: the gesture of the frame, then the end of the video
processFrameGesture(st, hand, outcome, closure) ==
  IF outcome = "results" /\ hand # NoHand /\ detectGesture(hand) # NULL
     /\ DebounceElapsed(closure)
  THEN [st EXCEPT !.lastGestureTime = now,
                  !.currentGesture = detectGesture(hand),
                  !.detectedGestures = Append(@, detectGesture(hand)),
                  !.translatedText =
                     getTranslationFromGestures(
                       Append(closure.detectedGestures, detectGesture(hand))),
                  !.appendTimes = Append(@, now)]
  ELSE st

processFrameEnd(st, ended, outcome, closure) ==
  IF ~ended THEN st
  ELSE IF outcome = "throws"
  THEN [st EXCEPT !.translatedText = "Error processing video frame."]
  ELSE [st EXCEPT !.translatedText =
                     FinalText(getTranslationFromGestures(closure.detectedGestures))]

\* the frame the listener handled in the last step (NoFrame after any other change
\* of the recognition state): the gesture, the currentGesture of the state before
\* it, and whether the listener appended the gesture
Frame(mode, hand) ==
  [mode |-> mode,
   gesture |-> IF hand = NoHand THEN NULL ELSE detectGesture(hand),
   currentBefore |-> currentGesture,
   appended |-> hand # NoHand /\ IsNewGesture(detectGesture(hand))]

NoFrame == [mode |-> "none", gesture |-> NULL, currentBefore |-> NULL, appended |-> FALSE]

\* toggleCamera with the camera off, up to await getUserMedia
ToggleCameraOn ==
  /\ trMounted
  /\ cameraPc = "off"
  /\ ~isRecording
  /\ cameraPc' = "awaitStream"
  /\ UNCHANGED <<trMounted, isRecording, liveStreams, streamRef, framesSending,
                 framesScheduled, refFramePending, translationTimeout, modelRef, uploadPc>>
  /\ UNCHANGED <<dbVars, ctxVars, studentsVars, gestureVars, captionVars, lateCallbacks>>

\* getUserMedia rejects (no permission, no camera): alert, setCameraEnabled(false)
GetUserMediaRejects ==
  /\ cameraPc = "awaitStream"
  /\ cameraPc' = "off"
  /\ UNCHANGED <<trMounted, isRecording, liveStreams, streamRef, framesSending,
                 framesScheduled, refFramePending, translationTimeout, modelRef, uploadPc>>
  /\ UNCHANGED <<dbVars, ctxVars, studentsVars, gestureVars, captionVars, lateCallbacks>>

\* getUserMedia returns a stream: setCameraEnabled(true), then a 100 ms timer is
\* awaited for the video element to render
GetUserMediaResolves ==
  /\ cameraPc = "awaitStream"
  /\ liveStreams < MaxStreams
  /\ cameraPc' = "awaitRender"
  /\ liveStreams' = liveStreams + 1
  /\ UNCHANGED <<trMounted, isRecording, streamRef, framesSending, framesScheduled,
                 refFramePending, translationTimeout, modelRef, uploadPc>>
  /\ UNCHANGED <<dbVars, ctxVars, studentsVars, gestureVars, captionVars, lateCallbacks>>

\* the 100 ms timer expires: without a video element the catch block runs, which
\* stops only the stream of streamRef; else video.srcObject = stream and the
\* play of the video is awaited
RenderTimerFires ==
  /\ cameraPc = "awaitRender"
  /\ cameraPc' = IF videoRef THEN "awaitPlay" ELSE "off"
  /\ lateCallbacks' = Late(trMounted, "renderTimer")
  /\ UNCHANGED <<trMounted, isRecording, liveStreams, streamRef, framesSending,
                 framesScheduled, refFramePending, translationTimeout, modelRef, uploadPc>>
  /\ UNCHANGED <<dbVars, ctxVars, studentsVars, gestureVars, captionVars>>

\* video.play() resolves: streamRef.current = stream; processVideoFrame()
VideoPlayResolves ==
  /\ cameraPc = "awaitPlay"
  /\ framesSending + framesScheduled < MaxFrameLoops
  /\ cameraPc' = "on"
  /\ streamRef' = TRUE
  /\ framesSending' = FramesAfterCall
  /\ UNCHANGED <<trMounted, isRecording, liveStreams, framesScheduled, refFramePending,
                 translationTimeout, modelRef, uploadPc>>
  /\ UNCHANGED <<dbVars, ctxVars, studentsVars, gestureVars, captionVars, lateCallbacks>>

\* video.play() rejects or the video element reports an error: the catch block
\* finds streamRef.current empty and stops nothing
VideoPlayRejects ==
  /\ cameraPc = "awaitPlay"
  /\ cameraPc' = "off"
  /\ UNCHANGED <<trMounted, isRecording, liveStreams, streamRef, framesSending,
                 framesScheduled, refFramePending, translationTimeout, modelRef, uploadPc>>
  /\ UNCHANGED <<dbVars, ctxVars, studentsVars, gestureVars, captionVars, lateCallbacks>>

\* toggleCamera with the camera on and a stream in streamRef: the tracks are
\* stopped and the frame of animationFrameRef is cancelled
ToggleCameraOff ==
  /\ trMounted
  /\ cameraPc = "on"
  /\ ~isRecording
  /\ streamRef
  /\ cameraPc' = "off"
  /\ liveStreams' = liveStreams - 1
  /\ streamRef' = FALSE
  /\ framesScheduled' = FramesAfterCancel
  /\ refFramePending' = FALSE
  /\ UNCHANGED <<trMounted, isRecording, framesSending, translationTimeout, modelRef,
                 uploadPc>>
  /\ UNCHANGED <<dbVars, ctxVars, studentsVars, gestureVars, captionVars, lateCallbacks>>

\* handModel.send returns in processVideoFrame, the listener having handled the
\* results of the frame:
\* animationFrameRef.current = requestAnimationFrame(processVideoFrame)
FrameSendReturns(hand) ==
  /\ framesSending > 0
  /\ hand # NoHand => Len(detectedGestures) < MaxDetected
  /\ framesSending' = framesSending - 1
  /\ framesScheduled' = framesScheduled + 1
  /\ refFramePending' = TRUE
  /\ SetRecognition(onResults(RecognitionState, hand, FALSE))
  /\ frameLast' = Frame("live", hand)
  /\ UNCHANGED <<now, runClosure>>
  /\ UNCHANGED <<trMounted, cameraPc, isRecording, liveStreams, streamRef,
                 translationTimeout, modelRef, uploadPc>>
  /\ UNCHANGED <<dbVars, ctxVars, studentsVars, classifierVars, captionVars, lateCallbacks>>

\* an animation frame runs processVideoFrame: the one animationFrameRef names
\* (ofRef) or an older one of another loop
AnimationFrameFires(ofRef) ==
  /\ IF ofRef THEN refFramePending
     ELSE framesScheduled > (IF refFramePending THEN 1 ELSE 0)
  /\ framesScheduled' = framesScheduled - 1
  /\ refFramePending' = IF ofRef THEN FALSE ELSE refFramePending
  /\ framesSending' = FramesAfterCall
  /\ lateCallbacks' = Late(trMounted, "animationFrame")
  /\ UNCHANGED <<trMounted, cameraPc, isRecording, liveStreams, streamRef,
                 translationTimeout, modelRef, uploadPc>>
  /\ UNCHANGED <<dbVars, ctxVars, studentsVars, gestureVars, captionVars>>

\* startTranslation with the camera enabled: setIsRecording(true),
\* processVideoFrame(), and in single-translation mode the 2 s timer
StartTranslation(continuousTranslation) ==
  /\ trMounted
  /\ cameraEnabled
  /\ ~isRecording
  /\ framesSending + framesScheduled < MaxFrameLoops
  /\ isRecording' = TRUE
  /\ framesSending' = FramesAfterCall
  /\ translationTimeout' = IF continuousTranslation THEN translationTimeout ELSE TRUE
  /\ translatedText' = "Waiting for hand detection..."
  /\ frameLast' = NoFrame
  /\ UNCHANGED <<detectedGestures, currentGesture, lastGestureTime, handResults, now,
                 runClosure, appendTimes>>
  /\ UNCHANGED <<trMounted, cameraPc, liveStreams, streamRef, framesScheduled,
                 refFramePending, modelRef, uploadPc>>
  /\ UNCHANGED <<dbVars, ctxVars, studentsVars, classifierVars, captionVars, lateCallbacks>>

\* stopTranslation: setIsRecording(false), clearTimeout(translationTimeoutRef.current)
StopTranslation ==
  /\ trMounted
  /\ isRecording
  /\ isRecording' = FALSE
  /\ translationTimeout' = FALSE
  /\ UNCHANGED <<trMounted, cameraPc, liveStreams, streamRef, framesSending,
                 framesScheduled, refFramePending, modelRef, uploadPc>>
  /\ UNCHANGED <<dbVars, ctxVars, studentsVars, gestureVars, captionVars, lateCallbacks>>

\* one of demoSignPhrases
DemoPhrase == "Thank you"

\* the timer of translationTimeoutRef expires: a demo phrase, setIsRecording(false)
TranslationTimeoutFires ==
  /\ translationTimeout
  /\ translationTimeout' = FALSE
  /\ isRecording' = IF trMounted THEN FALSE ELSE isRecording
  /\ translatedText' = IF trMounted THEN DemoPhrase ELSE translatedText
  /\ lateCallbacks' = Late(trMounted, "translationTimeout")
  /\ frameLast' = NoFrame
  /\ UNCHANGED <<detectedGestures, currentGesture, lastGestureTime, handResults, now,
                 runClosure, appendTimes>>
  /\ UNCHANGED <<trMounted, cameraPc, liveStreams, streamRef, framesSending,
                 framesScheduled, refFramePending, modelRef, uploadPc>>
  /\ UNCHANGED <<dbVars, ctxVars, studentsVars, classifierVars, captionVars>>

\* processUploadedVideo up to the await of the video's metadata: the state is
\* reset for the renders to come, and processFrame keeps the state of this render
ProcessUploadedVideo ==
  /\ trMounted
  /\ modelRef
  /\ uploadPc = "idle"
  /\ uploadPc' = "awaitMetadata"
  /\ runClosure' = [lastGestureTime |-> lastGestureTime,
                    detectedGestures |-> detectedGestures]
  /\ translatedText' = "Processing video..."
  /\ detectedGestures' = <<>>
  /\ currentGesture' = NULL
  /\ lastGestureTime' = 0
  /\ appendTimes' = <<>>
  /\ frameLast' = NoFrame
  /\ UNCHANGED <<handResults, now>>
  /\ UNCHANGED <<trMounted, cameraPc, isRecording, liveStreams, streamRef, framesSending,
                 framesScheduled, refFramePending, translationTimeout, modelRef>>
  /\ UNCHANGED <<dbVars, ctxVars, studentsVars, classifierVars, captionVars, lateCallbacks>>

\* useState isProcessing of the translator: set by processUploadedVideo, reset
\* where processFrame stops
isProcessing == uploadPc # "idle"

\* processFrame() is called: without the model it stops, else it awaits send
UploadAfterCall == IF modelRef THEN "sending" ELSE "idle"

\* onloadedmetadata: video.play(), then processFrame()
UploadMetadataLoaded ==
  /\ uploadPc = "awaitMetadata"
  /\ uploadPc' = UploadAfterCall
  /\ UNCHANGED <<trMounted, cameraPc, isRecording, liveStreams, streamRef, framesSending,
                 framesScheduled, refFramePending, translationTimeout, modelRef>>
  /\ UNCHANGED <<dbVars, ctxVars, studentsVars, gestureVars, captionVars, lateCallbacks>>

\* the video element fails to load the file (not a video, or its object URL revoked
\* by clearUploadedVideo): onloadedmetadata never runs; the promise awaited has
\* no reject and the element no onerror handler, so the call never goes on
UploadMetadataFails ==
  /\ uploadPc = "awaitMetadata"
  /\ uploadPc' = "noMetadata"
  /\ UNCHANGED <<trMounted, cameraPc, isRecording, liveStreams, streamRef, framesSending,
                 framesScheduled, refFramePending, translationTimeout, modelRef>>
  /\ UNCHANGED <<dbVars, ctxVars, studentsVars, gestureVars, captionVars, lateCallbacks>>

\* modelRef.current.send returns or throws in processFrame, the listener having
\* handled the results of the frame: the gesture is recorded; while the video plays
\* requestAnimationFrame(processFrame), whose id is kept nowhere; else the end
UploadSendReturns(ended, hand, outcome) ==
  /\ uploadPc = "sending"
  /\ hand # NoHand => Len(detectedGestures) < MaxDetected /\ Len(appendTimes) < MaxDetected
  /\ uploadPc' = IF ended THEN "idle" ELSE "scheduled"
  /\ SetRecognition(
       processFrameEnd(
         processFrameGesture(onResults(RecognitionState, hand, TRUE),
                             hand, outcome, runClosure),
         ended, outcome, runClosure))
  /\ frameLast' = Frame("upload", hand)
  /\ UNCHANGED <<now, runClosure>>
  /\ UNCHANGED <<trMounted, cameraPc, isRecording, liveStreams, streamRef, framesSending,
                 framesScheduled, refFramePending, translationTimeout, modelRef>>
  /\ UNCHANGED <<dbVars, ctxVars, studentsVars, classifierVars, captionVars, lateCallbacks>>

\* the animation frame runs processFrame
UploadFrameFires ==
  /\ uploadPc = "scheduled"
  /\ uploadPc' = UploadAfterCall
  /\ lateCallbacks' = Late(trMounted, "uploadFrame")
  /\ UNCHANGED <<trMounted, cameraPc, isRecording, liveStreams, streamRef, framesSending,
                 framesScheduled, refFramePending, translationTimeout, modelRef>>
  /\ UNCHANGED <<dbVars, ctxVars, studentsVars, gestureVars, captionVars>>

\* clearTranslation
ClearTranslation ==
  /\ trMounted
  /\ translatedText' = ""
  /\ detectedGestures' = <<>>
  /\ currentGesture' = NULL
  /\ frameLast' = NoFrame
  /\ UNCHANGED <<lastGestureTime, handResults, now, runClosure, appendTimes>>
  /\ UNCHANGED translatorVars
  /\ UNCHANGED <<dbVars, ctxVars, studentsVars, classifierVars, captionVars, lateCallbacks>>

\* time passes between two frames
TimePasses ==
  /\ now < StartTime + MaxTicks * Tick
  /\ now' = now + Tick
  /\ UNCHANGED <<detectedGestures, currentGesture, lastGestureTime, translatedText,
                 handResults, runClosure, appendTimes, frameLast>>
  /\ UNCHANGED translatorVars
  /\ UNCHANGED <<dbVars, ctxVars, studentsVars, classifierVars, captionVars, lateCallbacks>>

\* the captioner is opened again, the timer of the instance before having run:
\* the state is that of a first render, the load effect sets the list parsed from
\* 'videoCaptions', and the render that follows saves that list
CaptionerMount ==
  /\ ~capMounted
  /\ ~autoSaveTimeout
  /\ capMounted' = TRUE
  /\ generatedCaptions' = LoadedCaptions(videoCaptions)
  /\ videoCaptions' = autoSaveCaptions(generatedCaptions', videoCaptions)
  /\ autoSaveStatus' = IF generatedCaptions' = <<>> THEN "" ELSE "Auto-saved"
  /\ autoSaveTimeout' = (generatedCaptions' # <<>>)
  /\ changes' = IF generatedCaptions' = <<>> THEN 0 ELSE 1
  /\ writes' = changes'
  /\ capLast' = [op |-> "load", wrote |-> generatedCaptions' # <<>>]
  /\ capIsProcessing' = FALSE
  /\ recognitionRef' = IF recognitionRef = NoRecognition THEN NoRecognition
                       ELSE Recognition(FALSE, "idle")
  /\ videoPlaying' = FALSE
  /\ recLast' = [op |-> "mount", processing |-> FALSE, restarted |-> FALSE]
  /\ UNCHANGED oldRecognitions
  /\ UNCHANGED <<dbVars, ctxVars, studentsVars, gestureVars, translatorVars, lateCallbacks>>

\* the translator unmounts.  Its cleanups: the tracks of streamRef.current are
\* stopped, the frame of animationFrameRef is cancelled, the timer of
\* translationTimeoutRef is cleared, the Hands model is closed.
TranslatorUnmount ==
  /\ trMounted
  /\ trMounted' = FALSE
  /\ liveStreams' = IF streamRef THEN liveStreams - 1 ELSE liveStreams
  /\ framesScheduled' = FramesAfterCancel
  /\ refFramePending' = FALSE
  /\ translationTimeout' = FALSE
  /\ modelRef' = FALSE
  /\ UNCHANGED <<cameraPc, isRecording, streamRef, framesSending, uploadPc>>
  /\ UNCHANGED <<dbVars, ctxVars, studentsVars, gestureVars, captionVars, lateCallbacks>>

(***************************************************************************)
(* Specifications of the database and of the auth context.                 *)
(***************************************************************************)
vars == <<dbVars, ctxVars, pageVars, lateCallbacks>>

\* the tables the statements above can produce for a set of auth users
Tables(users) ==
  {t \in SUBSET [id : users, email : Users, role : Roles] :
     /\ \A r \in t : r.email = EmailOf(r.id)
     /\ \A r1, r2 \in t : r1.id = r2.id => r1 = r2}

\* the provider after its first render
NoStudentsRun ==
  [op |-> "none", userRole |-> NULL, loading |-> TRUE, teacher |-> FALSE,
   redirected |-> FALSE, queried |-> FALSE]

StudentsInit ==
  /\ studentsPc = "closed"
  /\ studentsRole = NULL
  /\ studentsLast = NoStudentsRun

CtxInit ==
  /\ mounted = TRUE
  /\ session = NoUser
  /\ user = NoUser
  /\ userRole = NULL
  /\ isLoading = TRUE
  /\ loadingTimers = 0
  /\ initPc = "awaitSession"
  /\ authPc = "idle"
  /\ authArg = NoArg
  /\ signOutPc = "idle"
  /\ pending = {}
  /\ insertTimers = {}
  /\ last = NoOp

\* no call of the classifier or of the translation yet
GestureInit ==
  /\ landmarks = <<>>
  /\ detected = "pending"
  /\ gestures = <<>>
  /\ translation = "pending"

\* the captioner after its first render in a browser that has stored no captions
CaptionListInit ==
  /\ capMounted = TRUE
  /\ generatedCaptions = <<>>
  /\ videoCaptions = <<>>
  /\ autoSaveStatus = ""
  /\ autoSaveTimeout = FALSE
  /\ changes = 0
  /\ writes = 0
  /\ capLast = [op |-> "mount", wrote |-> FALSE]

\* the first run of the recognition effect has left ref in recognitionRef
RecognizerInit(ref) ==
  /\ capIsProcessing = FALSE
  /\ recognitionRef = ref
  /\ oldRecognitions = {}
  /\ videoPlaying = FALSE
  /\ recLast = [op |-> "mount", processing |-> FALSE, restarted |-> FALSE]

\* the captioner in a browser with speech recognition
CaptionInit ==
  /\ CaptionListInit
  /\ RecognizerInit(Recognition(FALSE, "idle"))

\* the translator after its first render and the initialization of the Hands model
TranslatorInit ==
  /\ trMounted = TRUE
  /\ cameraPc = "off"
  /\ isRecording = FALSE
  /\ liveStreams = 0
  /\ streamRef = FALSE
  /\ framesSending = 0
  /\ framesScheduled = 0
  /\ refFramePending = FALSE
  /\ translationTimeout = FALSE
  /\ modelRef = TRUE
  /\ uploadPc = "idle"
  /\ detectedGestures = <<>>
  /\ currentGesture = NULL
  /\ lastGestureTime = 0
  /\ translatedText = ""
  /\ handResults = FALSE
  /\ now = StartTime
  /\ runClosure = [lastGestureTime |-> 0, detectedGestures |-> <<>>]
  /\ appendTimes = <<>>
  /\ frameLast = NoFrame

\* a project set up with setup.sql that has no user yet
BackendInit ==
  /\ schema = "setup"
  /\ authUsers = {}
  /\ user_profiles = {}
  /\ sbSession = NoUser
  /\ ctxVariant = "AuthContext"

\* the database in any state the statements can leave it in, and a provider that
\* nobody is signed in to
InitDb ==
  /\ schema \in {"none"} \cup Schemas
  /\ authUsers \in SUBSET Users
  /\ user_profiles \in (IF schema = "none" THEN {{}} ELSE Tables(authUsers))
  /\ sbSession = NoUser
  /\ ctxVariant = "AuthContext"
  /\ CtxInit
  /\ GestureInit
  /\ CaptionInit
  /\ TranslatorInit
  /\ StudentsInit
  /\ lateCallbacks = {}

\* either copy of the provider after its first render, over the accounts used from
\* its browser, with or without a session the client has kept
InitAuth ==
  /\ schema \in {"none"} \cup Schemas
  /\ authUsers \in SUBSET BrowserUsers
  /\ user_profiles \in (IF schema = "none" THEN {{}} ELSE Tables(authUsers))
  /\ sbSession \in authUsers \cup {NoUser}
  /\ ctxVariant \in Variants
  /\ CtxInit
  /\ GestureInit
  /\ CaptionInit
  /\ TranslatorInit
  /\ StudentsInit
  /\ lateCallbacks = {}

\* the inputs of the classifier and of the translation
InitGesture ==
  /\ BackendInit
  /\ CtxInit
  /\ \/ landmarks \in LandmarkLists /\ gestures = <<>>
     \/ landmarks = <<>> /\ gestures \in GestureLists
  /\ detected = "pending"
  /\ translation = "pending"
  /\ CaptionInit
  /\ TranslatorInit
  /\ StudentsInit
  /\ lateCallbacks = {}

InitPages ==
  /\ BackendInit
  /\ CtxInit
  /\ GestureInit
  /\ CaptionInit
  /\ TranslatorInit
  /\ StudentsInit
  /\ lateCallbacks = {}

\* the pages in a browser with or without speech recognition
InitCaption ==
  /\ BackendInit
  /\ CtxInit
  /\ GestureInit
  /\ CaptionListInit
  /\ \E ref \in {NoRecognition, Recognition(FALSE, "idle")} : RecognizerInit(ref)
  /\ TranslatorInit
  /\ StudentsInit
  /\ lateCallbacks = {}

SignUp ==
  \/ \E u \in Users, role \in Roles \cup {NULL} : SignUpCall(u, role)
  \/ SignUpFails
  \/ SignUpReturns

\* the database under sign-ups and arbitrary statements of authenticated callers
\* (the loading timers of the sign-ups stay pending here, which bounds the sign-ups)
NextDb ==
  \/ \E s \in Schemas : RunSetupScript(s)
  \/ \E c \in Users, id \in Users, role \in AttemptedRoles : ApiInsert(c, id, role)
  \/ \E c \in Users, id \in Users, role \in AttemptedRoles : ApiUpdate(c, id, role)
  \/ \E c \in Users, id \in Users : ApiSelect(c, id)
  \/ \E id \in Users, role \in AttemptedRoles : DashboardUpdateRole(id, role)
  \/ SignUp

SpecDb == InitDb /\ [][NextDb]_vars

\* the auth context over the database
NextAuth ==
  \/ InitialSessionReturns
  \/ \E u \in BrowserUsers, fault \in Faults : EffectRoleReturns(u, fault)
  \/ \E fault \in Faults : SignInRoleReturns(fault)
  \/ \E u \in BrowserUsers, caller \in BrowserUsers, n \in 1..MaxInsertTimers :
       InsertTimerFires(InsertTimer(u, caller, n))
  \/ LoadingTimerFires
  \/ \E event \in {"SIGNED_IN", "TOKEN_REFRESHED"} : AuthEventSession(event)
  \/ AuthEventSignedOut
  \/ \E u \in BrowserUsers : SignInCall(u)
  \/ SignInFails
  \/ SignInAuthReturns
  \/ SignOutCall
  \/ SignOutFails
  \/ SignOutReloads
  \/ SignOutReturns

SpecAuth == InitAuth /\ [][NextAuth]_vars

\* the creation of profiles: the sign-ups with the trigger, and the provider with
\* the delayed inserts of its lookups, which do not fail but for a missing row
NextProfile ==
  \/ SignUp
  \/ InitialSessionReturns
  \/ \E u \in BrowserUsers : EffectRoleReturns(u, "none")
  \/ SignInRoleReturns("none")
  \/ \E u \in BrowserUsers, caller \in BrowserUsers, n \in 1..MaxInsertTimers :
       InsertTimerFires(InsertTimer(u, caller, n))
  \/ LoadingTimerFires
  \/ \E event \in {"SIGNED_IN", "TOKEN_REFRESHED"} : AuthEventSession(event)
  \/ AuthEventSignedOut
  \/ \E u \in BrowserUsers : SignInCall(u)
  \/ SignInFails
  \/ SignInAuthReturns

SpecProfile == InitAuth /\ [][NextProfile]_vars

\* the Students page over the auth context, with lookups that do not fail
NextStudents ==
  \/ InitialSessionReturns
  \/ \E u \in BrowserUsers : EffectRoleReturns(u, "none")
  \/ LoadingTimerFires
  \/ AuthEventSignedOut
  \/ OpenStudents
  \/ StudentsRender

SpecStudents == InitAuth /\ [][NextStudents]_vars

\* the classifier and the translation over their inputs
NextGesture ==
  \/ DetectGesture
  \/ GetTranslation

SpecGesture == InitGesture /\ [][NextGesture]_vars

\* the captioner's list under results, edits and regeneration
NextCaption ==
  \/ \E transcript \in Transcripts, currentTime \in VideoTimes :
       RecognitionResult(transcript, currentTime)
  \/ \E index \in 0..MaxCaptions, newText \in EditedTexts : HandleCaptionEdit(index, newText)
  \/ \E recognitionAvailable \in BOOLEAN, audioTrack \in BOOLEAN :
       GenerateCaptions(recognitionAvailable, audioTrack)
  \/ VideoEnded
  \/ \E closure \in BOOLEAN, state \in {"running", "ending"} :
       RecognitionEnds(Recognition(closure, state))
  \/ AutoSaveTimeoutFires

SpecCaption == InitCaption /\ [][NextCaption]_vars

\* captions are recognized and edited, the page is left and opened again
NextReload ==
  \/ \E transcript \in Transcripts, currentTime \in VideoTimes :
       RecognitionResult(transcript, currentTime)
  \/ \E index \in 0..MaxCaptions, newText \in EditedTexts \cup TypedTexts :
       HandleCaptionEdit(index, newText)
  \/ AutoSaveTimeoutFires
  \/ CaptionerUnmount
  \/ CaptionerMount

SpecReload == InitCaption /\ [][NextReload]_vars

\* the three components up to and after their teardown
NextTeardown ==
  \/ ToggleCameraOn
  \/ GetUserMediaRejects
  \/ GetUserMediaResolves
  \/ RenderTimerFires
  \/ VideoPlayResolves
  \/ VideoPlayRejects
  \/ ToggleCameraOff
  \/ FrameSendReturns(NoHand)
  \/ \E ofRef \in BOOLEAN : AnimationFrameFires(ofRef)
  \/ \E continuousTranslation \in BOOLEAN : StartTranslation(continuousTranslation)
  \/ StopTranslation
  \/ TranslationTimeoutFires
  \/ ProcessUploadedVideo
  \/ UploadMetadataLoaded
  \/ \E ended \in BOOLEAN : UploadSendReturns(ended, NoHand, "undefined")
  \/ UploadFrameFires
  \/ TranslatorUnmount
  \/ \E recognitionAvailable \in BOOLEAN : GenerateCaptions(recognitionAvailable, TRUE)
  \/ AutoSaveTimeoutFires
  \/ CaptionerUnmount
  \/ InitialSessionReturns
  \/ LoadingTimerFires
  \/ Unmount

SpecTeardown == InitCaption /\ [][NextTeardown]_vars

\* the recognition of gestures in the frames of the camera
NextLive ==
  \/ ToggleCameraOn
  \/ GetUserMediaResolves
  \/ RenderTimerFires
  \/ VideoPlayResolves
  \/ ToggleCameraOff
  \/ \E hand \in FrameHands \cup {NoHand} : FrameSendReturns(hand)
  \/ \E ofRef \in BOOLEAN : AnimationFrameFires(ofRef)
  \/ \E continuousTranslation \in BOOLEAN : StartTranslation(continuousTranslation)
  \/ StopTranslation
  \/ TranslationTimeoutFires
  \/ ClearTranslation

SpecLive == InitPages /\ [][NextLive]_vars

\* the recognition of gestures in the frames of an uploaded video
NextUpload ==
  \/ ProcessUploadedVideo
  \/ UploadMetadataLoaded
  \/ \E ended \in BOOLEAN, hand \in FrameHands \cup {NoHand}, outcome \in SendOutcomes :
       UploadSendReturns(ended, hand, outcome)
  \/ UploadFrameFires
  \/ ClearTranslation
  \/ TimePasses

SpecUpload == InitPages /\ [][NextUpload]_vars

\* the runs of processUploadedVideo to their ends.  The browser runs a pending
\* callback eventually, and a video that plays comes to its end: some send
\* returns with the video ended.  Whether the metadata loads is up to the file.
NextUploadRun ==
  \/ ProcessUploadedVideo
  \/ UploadMetadataLoaded
  \/ UploadMetadataFails
  \/ \E ended \in BOOLEAN, hand \in FrameHands \cup {NoHand}, outcome \in SendOutcomes :
       UploadSendReturns(ended, hand, outcome)
  \/ UploadFrameFires
  \/ TranslatorUnmount

VideoEnds ==
  \E hand \in FrameHands \cup {NoHand}, outcome \in SendOutcomes :
    UploadSendReturns(TRUE, hand, outcome)

SpecUploadRun ==
  /\ InitPages
  /\ [][NextUploadRun]_vars
  /\ WF_vars(UploadMetadataLoaded)
  /\ WF_vars(UploadFrameFires)
  /\ SF_vars(VideoEnds)

\* the camera of the translator: toggleCamera with its failures, the frame loop it
\* starts, and the unmount that takes the video element away
NextCamera ==
  \/ ToggleCameraOn
  \/ GetUserMediaRejects
  \/ GetUserMediaResolves
  \/ RenderTimerFires
  \/ VideoPlayResolves
  \/ VideoPlayRejects
  \/ ToggleCameraOff
  \/ FrameSendReturns(NoHand)
  \/ \E ofRef \in BOOLEAN : AnimationFrameFires(ofRef)
  \/ TranslatorUnmount

SpecCamera == InitPages /\ [][NextCamera]_vars
(***************************************************************************)
(* Properties of the database and the auth context.                        *)
(***************************************************************************)
WriteOps == {"apiInsert", "apiUpdate", "dashboardUpdate", "timerInsert"}

ProfilesOf(id) == {r \in user_profiles : r.id = id}

\* C1: whenever signUpWithEmail succeeds in creating a new auth user on a project
\* whose script has been run, whatever role argument it was given, the trigger
\* leaves exactly one user_profiles row with the new user's id, and its role is
\* 'student'.
C1_SignUpCreatesStudentProfile ==
  (last.op = "signUp" /\ last.ok /\ schema # "none")
    => ProfilesOf(last.uid) = {Row(last.uid, "student")}

C1_Witness ==
  /\ last.op = "signUp" /\ last.ok /\ last.role = "teacher"
  /\ schema = "supabase_setup"
  /\ ProfilesOf(last.uid) = {Row(last.uid, "student")}
  /\ Cardinality(user_profiles) = 2

\* C2: after signInWithEmail resolves successfully with a session, the context's
\* session and user are that session and its user, and userRole is 'student' or
\* 'teacher', never null.
C2_SignInPopulatesSessionAndRole ==
  (last.op = "signIn" /\ last.ok)
    => session = last.uid /\ user = last.uid /\ userRole \in Roles

C2_Witness ==
  /\ last.op = "signIn" /\ last.ok
  /\ session = last.uid /\ user = last.uid /\ userRole = "teacher"

\* C3: when signOut has been called and the provider's sign-out call has
\* succeeded, session, user and userRole are all null as signOut completes; the
\* SIGNED_OUT auth event alone leaves them null as well.
C3_SignOutClearsState ==
  ((last.op = "signOut" /\ last.ok) \/ last.op = "SIGNED_OUT")
    => session = NoUser /\ user = NoUser /\ userRole = NULL

C3_Witness ==
  /\ last.op = "signOut" /\ last.ok
  /\ ctxVariant = "part_001"
  /\ session = NoUser /\ user = NoUser /\ userRole = NULL /\ sbSession = NoUser
  /\ pending # {}

\* C4: for every failing outcome of the user_profiles lookup (42P01, PGRST116,
\* any other error code, a thrown exception) fetchUserRole returns 'student',
\* never null, and does not throw.
C4_FailedLookupDefaultsToStudent ==
  (last.op \in {"signIn", "fetchUserRole"} /\ last.ok /\ last.code # "ok")
    => last.role = "student" /\ ~Thrown(last)

C4_Witness ==
  /\ last.op = "fetchUserRole" /\ last.code = "other" /\ last.role = "student"
  /\ ctxVariant = "AuthContext"

\* C5: a select, update or insert issued by an authenticated caller on a row takes
\* effect only if the caller's id is the row's id, and an owner's own select,
\* update and insert are all permitted.
C5_RowLevelSecurityOwnerOnly ==
  /\ (last.op \in {"apiInsert", "apiUpdate", "timerInsert"} /\ last.changed)
       => last.uid = last.id
  /\ (last.op = "apiSelect" /\ last.matched > 0) => last.uid = last.id
  /\ (last.op \in {"apiInsert", "apiUpdate", "apiSelect", "timerInsert"}
        /\ last.uid = last.id /\ last.uid # NoUser /\ schema # "none")
       => last.code # "42501"

C5_Witness ==
  /\ last.op = "apiInsert" /\ last.uid = last.id /\ last.role = "student"
  /\ schema = "supabase_setup" /\ last.code = "42501" /\ ~last.changed
  /\ ProfilesOf(last.id) = {} /\ last.id \in authUsers

\* C10: in every reachable database state every user_profiles row has role
\* 'student' or 'teacher', and a write that carries any other role leaves the
\* table unchanged: it is refused with an error, unless it is an update that
\* reaches no row.
C10_RoleConstrained ==
  /\ \A r \in user_profiles : r.role \in Roles
  /\ (last.op \in WriteOps /\ last.role \notin Roles)
       => /\ ~last.changed
          /\ (last.code # NULL \/ (last.op \in {"apiUpdate", "dashboardUpdate"}
                                     /\ last.matched = 0))

C10_Witness ==
  /\ last.op = "dashboardUpdate" /\ last.role = "admin" /\ last.code = "23514"
  /\ last.matched = 1 /\ ~last.changed
  /\ ProfilesOf(last.id) = {Row(last.id, "teacher")}

(***************************************************************************)
(* Properties of the gesture classifier and of the translation.            *)
(***************************************************************************)
\* the list holds the three tips and both distances from the thumb tip are below 0.1
TipsClose(list) ==
  /\ Defined(list, ThumbTip) /\ Defined(list, IndexTip) /\ Defined(list, MiddleTip)
  /\ Dist2(At(list, ThumbTip), At(list, IndexTip)) < Sq(NearSteps)
  /\ Dist2(At(list, ThumbTip), At(list, MiddleTip)) < Sq(NearSteps)

\* C6: for every non-empty landmark list whose thumb-tip/index-tip distance and
\* thumb-tip/middle-tip distance are both below 0.1, detectGesture returns "A",
\* whatever the other landmarks are.
C6_CloseTipsClassifiedA ==
  (detected # "pending" /\ landmarks # <<>> /\ TipsClose(landmarks)) => detected = "A"

\* a hand classified "A" whose tips are apart from each other though close, and
\* whose other landmarks are far from the thumb tip
C6_Witness ==
  /\ detected = "A"
  /\ TipsClose(landmarks)
  /\ At(landmarks, ThumbTip) # At(landmarks, IndexTip)
  /\ At(landmarks, IndexTip) # At(landmarks, MiddleTip)
  /\ Dist2(At(landmarks, ThumbTip), At(landmarks, RingTip)) > Sq(FarSteps)

\* C7: getTranslationFromGestures returns "Unknown gesture" for an empty
\* detected-gesture sequence.
C7_EmptySequenceUnknownGesture ==
  (translation # "pending" /\ gestures = <<>>) => translation = "Unknown gesture"

C7_Witness ==
  /\ gestures = <<>>
  /\ translation = "Unknown gesture"

(***************************************************************************)
(* Properties of the caption auto-save.                                    *)
(***************************************************************************)
CaptionChangeOps == {"onresult", "handleCaptionEdit", "generateCaptions"}

\* C8 as stated: the write of 'videoCaptions' is debounced; changes inside the
\* window of the timer write nothing, the single write is made when the timer
\* expires.
C8_SingleWriteAtTimerExpiry ==
  /\ capLast.wrote => capLast.op = "autoSaveTimeout"
  /\ autoSaveTimeout => writes = 0

\* C8, amended: every committed change to a non-empty caption list writes
\* 'videoCaptions' at once with the notes text of the new list, so a burst of
\* changes makes one write per change; the 2 s timer only clears the "Auto-saved"
\* status and writes nothing; a change to the empty list writes nothing.
C8_AutoSaveWritesOnEveryChange ==
  /\ writes = changes
  /\ (capLast.op \in CaptionChangeOps /\ generatedCaptions # <<>>)
       => /\ capLast.wrote
          /\ videoCaptions = NotesText(generatedCaptions)
          /\ autoSaveStatus = "Auto-saved"
          /\ autoSaveTimeout
  /\ (capLast.op \in CaptionChangeOps /\ generatedCaptions = <<>>) => ~capLast.wrote
  /\ capLast.op = "autoSaveTimeout" => (~capLast.wrote /\ autoSaveStatus = "" /\ writes = 0)

\* a burst of three changes before the timer expires has made three writes
C8_Witness ==
  /\ autoSaveTimeout
  /\ changes = MaxBurst
  /\ writes = MaxBurst
  /\ capLast.op = "handleCaptionEdit"
  /\ videoCaptions = NotesText(generatedCaptions)
  /\ Len(generatedCaptions) = 2

(***************************************************************************)
(* Properties of the teardown.                                             *)
(***************************************************************************)
\* C9: after a component (sign-language translator, video captioner, auth
\* provider) unmounts, every track of a media stream it obtained is stopped and
\* every timer or animation-frame callback it scheduled that is still pending is
\* cancelled, so none of its callbacks runs after teardown.
C9_TeardownStopsTracksAndTimers ==
  /\ ~trMounted => /\ liveStreams = 0
                   /\ framesScheduled = 0
                   /\ ~translationTimeout
                   /\ cameraPc # "awaitRender"
                   /\ uploadPc # "scheduled"
  /\ ~capMounted => ~autoSaveTimeout
  /\ ~mounted => (loadingTimers = 0 /\ insertTimers = {})
  /\ lateCallbacks = {}

\* the unmounted components with a live stream and callbacks that ran late
C9_Witness ==
  /\ ~trMounted /\ ~capMounted /\ ~mounted
  /\ liveStreams > 0
  /\ {"autoSaveTimeout", "loadingTimer", "animationFrame", "uploadFrame", "renderTimer"}
       \subseteq lateCallbacks

(***************************************************************************)
(* Properties of the setup scripts.                                        *)
(***************************************************************************)
\* C11: after a setup script has run on a database that already holds auth users,
\* every auth user that existed before the run has a user_profiles row.
C11_SetupInsertsExistingUsers ==
  last.op = "runSetupScript" => \A u \in authUsers : ProfilesOf(u) # {}

\* a script has just run on a project with users, and the table is empty
C11_Witness ==
  /\ last.op = "runSetupScript"
  /\ authUsers # {}
  /\ user_profiles = {}

(***************************************************************************)
(* Properties of the gesture classifier and of the translation.            *)
(***************************************************************************)
\* the landmark i takes part in the decision: moving it alone, which changes only
\* its distance to the thumb tip, changes the result for some hand
Decides(i) ==
  \E l \in LandmarkLists, p \in Points :
    /\ Defined(l, PinkyTip)
    /\ detectGesture(WithLandmark(l, i, p)) # detectGesture(l)

\* C12: each of the five distances between the thumb tip and the other landmarks
\* the classifier reads (index, middle, ring and pinky tip, wrist) takes part in the
\* decision: for each there are two landmark lists that differ only in that
\* distance and are classified differently (stated of the classifier that has
\* produced the result held in detected).
C12_FiveDistancesDecide ==
  detected # "pending" => \A i \in ReadLandmarks : Decides(i)

\* a hand has been classified, and no position of its ring tip, pinky tip or wrist
\* gives another result
C12_Witness ==
  /\ detected \in {"A", "B", "C", "D"}
  /\ \A i \in {RingTip, PinkyTip, Wrist}, p \in Points :
       detectGesture(WithLandmark(landmarks, i, p)) = detected

\* thumbIndexDist and thumbMiddleDist of a hand, squared, in grid steps
ThumbIndex2(list) == Dist2(At(list, ThumbTip), At(list, IndexTip))
ThumbMiddle2(list) == Dist2(At(list, ThumbTip), At(list, MiddleTip))

\* a distance below 0.1, above 0.2, and in [0.1, 0.2]
Near(d2) == d2 < Sq(NearSteps)
Far(d2) == d2 > Sq(FarSteps)
Between(d2) == ~Near(d2) /\ ~Far(d2)

\* C13: on a hand, detectGesture returns "A" iff ti < 0.1 and tm < 0.1, "B" iff
\* ti > 0.2 and tm < 0.1, "C" iff ti < 0.1 and tm > 0.2, "D" iff ti > 0.2 and
\* tm > 0.2, and null iff either distance lies in [0.1, 0.2]; on an empty list it
\* returns null; it never returns any other code (none of E to J).
C13_ThresholdTableTotalExclusive ==
  (detected # "pending" /\ (landmarks = <<>> \/ Defined(landmarks, PinkyTip))) =>
    /\ detected \in {"A", "B", "C", "D", NULL}
    /\ landmarks = <<>> => detected = NULL
    /\ landmarks # <<>> =>
         LET ti == ThumbIndex2(landmarks)
             tm == ThumbMiddle2(landmarks)
         IN /\ detected = "A" <=> (Near(ti) /\ Near(tm))
            /\ detected = "B" <=> (Far(ti) /\ Near(tm))
            /\ detected = "C" <=> (Near(ti) /\ Far(tm))
            /\ detected = "D" <=> (Far(ti) /\ Far(tm))
            /\ detected = NULL <=> (Between(ti) \/ Between(tm))

\* a hand whose thumb-index distance is exactly 0.2 and whose thumb-middle
\* distance is below 0.1 has been classified
C13_Witness ==
  /\ detected # "pending"
  /\ Defined(landmarks, PinkyTip)
  /\ ThumbIndex2(landmarks) = Sq(FarSteps)
  /\ Near(ThumbMiddle2(landmarks))

\* the keys the claim names
SequenceKeys == {"AB", "AC", "AD", "AE", "AF"}
SingleKeys == {"A", "B", "C", "D", "E", "F", "G", "H", "I", "J"}

\* C14: on a non-empty sequence getTranslationFromGestures returns the phrase of
\* the last two codes joined if that is one of AB, AC, AD, AE, AF; otherwise the
\* text of the last code if that is one of A to J, and "Unknown gesture" if not.
\* The result is never the empty string and is the result for the last two codes
\* alone.
C14_LastTwoThenLastGesture ==
  (translation # "pending" /\ gestures # <<>>) =>
    LET sequence == Join(LastTwo(gestures))
        lastGesture == gestures[Len(gestures)]
    IN /\ sequence \in SequenceKeys => translation = gestureSequences[sequence]
       /\ (sequence \notin SequenceKeys /\ lastGesture \in SingleKeys) =>
            translation = gestureToText[lastGesture]
       /\ (sequence \notin SequenceKeys /\ lastGesture \notin SingleKeys) =>
            translation = "Unknown gesture"
       /\ translation # ""
       /\ translation = getTranslationFromGestures(LastTwo(gestures))

\* a sequence of three codes whose last two are outside the sequence table, after a
\* first code that would form a key with the second, has been translated
C14_Witness ==
  /\ translation # "pending"
  /\ Len(gestures) = MaxGestures
  /\ Join(SubSeq(gestures, 1, 2)) \in SequenceKeys
  /\ Join(LastTwo(gestures)) \notin SequenceKeys

(***************************************************************************)
(* Properties of the recognition of gestures in frames.                    *)
(***************************************************************************)
\* C15: in live camera mode the listener appends the gesture of a frame to
\* detectedGestures exactly when it is a gesture other than the current gesture,
\* so a gesture held across consecutive frames is appended once; and the
\* translation then shown is that of the whole accumulated sequence with the new
\* gesture.
C15_LiveAppendsOnlyOnChange ==
  frameLast.mode = "live" =>
    /\ frameLast.appended <=>
         (frameLast.gesture # NULL /\ frameLast.gesture # frameLast.currentBefore)
    /\ frameLast.appended => translatedText = getTranslationFromGestures(detectedGestures)

\* a frame of the camera showed the gesture that was current already, and the
\* listener appended it again
C15_Witness ==
  /\ frameLast.mode = "live"
  /\ frameLast.gesture # NULL
  /\ frameLast.gesture = frameLast.currentBefore
  /\ frameLast.appended
  /\ Len(detectedGestures) >= 2

\* C17: within one processUploadedVideo run, any two gestures appended to
\* detectedGestures were detected at least GESTURE_DEBOUNCE_TIME (1000 ms) apart.
C17_UploadGesturesDebounced ==
  \A i, j \in DOMAIN appendTimes :
    i < j => appendTimes[j] - appendTimes[i] >= GESTURE_DEBOUNCE_TIME

\* two gestures of one run were appended for frames half the debounce time apart
C17_Witness ==
  /\ Len(appendTimes) >= 2
  /\ appendTimes[2] - appendTimes[1] = Tick

(***************************************************************************)
(* Properties of the speech recognizer of the captioner.                   *)
(***************************************************************************)
\* C16: while captions are being generated with speech recognition, a recognizer
\* is running: the one generateCaptions started is not stopped before the video
\* ends; and whenever a recognizer ends while isProcessing is true, a recognizer
\* is started again.
C16_RecognizerKeptRunning ==
  /\ (capMounted /\ capIsProcessing /\ videoPlaying /\ recognitionRef # NoRecognition) =>
       \E r \in Recognitions : r.state = "running"
  /\ (recLast.op = "onend" /\ recLast.processing) => recLast.restarted

\* generateCaptions has started the recognizer and the video plays, yet no
\* recognizer runs: the started one has been stopped and awaits its onend
C16_Witness ==
  /\ capMounted /\ capIsProcessing /\ videoPlaying
  /\ recLast.op = "generateCaptions"
  /\ recognitionRef = Recognition(TRUE, "idle")
  /\ Recognition(FALSE, "ending") \in oldRecognitions

(***************************************************************************)
(* Properties of the auth listener and of the sign-in.                     *)
(***************************************************************************)
\* C18: when the provider holds a non-null userRole, the listener's handling of
\* TOKEN_REFRESHED sets session and user to the refreshed session, starts no role
\* lookup and leaves userRole as it is.
C18_TokenRefreshKeepsRole ==
  [][(last'.op = "TOKEN_REFRESHED" /\ userRole # NULL) =>
       /\ session' = sbSession
       /\ user' = sbSession
       /\ userRole' = userRole
       /\ pending' = pending]_vars

\* TOKEN_REFRESHED has been handled while a role was held, and a lookup of the
\* role is pending
C18_Witness ==
  /\ last.op = "TOKEN_REFRESHED"
  /\ userRole # NULL
  /\ sbSession \in pending

C20_StudentsRedirectsOnlyNonTeachers ==
  studentsLast.op # "none" =>
    /\ studentsLast.redirected <=> ~studentsLast.teacher
    /\ studentsLast.queried => studentsLast.teacher
    /\ studentsLast.teacher => ~studentsLast.redirected

\* a signed-in teacher has opened the page while the context was loading the role
C20_Witness ==
  /\ studentsLast.op = "mount"
  /\ studentsLast.teacher
  /\ studentsLast.loading
  /\ studentsLast.userRole = NULL
  /\ studentsPc = "redirected"

(***************************************************************************)
(* Properties of the camera of the translator.                             *)
(***************************************************************************)
\* the step in which toggleCamera's enable path fails after getUserMedia has
\* returned a stream: the video element is missing when the timer expires, or the
\* metadata or the play of the video fails
EnableFails == cameraPc \in {"awaitRender", "awaitPlay"} /\ cameraPc' = "off"

\* C21: when the enable path of toggleCamera fails after getUserMedia returned a
\* stream, the tracks of that stream are stopped, streamRef is null and
\* cameraEnabled is false afterwards
C21_FailedEnableStopsStream ==
  [][EnableFails => (liveStreams' = liveStreams - 1 /\ ~streamRef' /\ ~cameraEnabled')]_vars

\* the enable path has failed after getUserMedia returned a stream: the camera is
\* off, streamRef is null, and a stream has live tracks
C21_Witness ==
  /\ cameraPc = "off"
  /\ ~streamRef
  /\ liveStreams > 0

(***************************************************************************)
(* Properties of the processing of an uploaded video.                      *)
(***************************************************************************)
\* the step in which processFrame finds the video ended or paused, no frame of
\* the run having given a gesture and the last send not having thrown
FinishesWithoutGesture ==
  /\ uploadPc = "sending" /\ uploadPc' = "idle"
  /\ detectedGestures' = <<>>
  /\ translatedText' # "Error processing video frame."

\* C22: when the processing of an uploaded video finishes and no gesture was
\* detected, the translated text is "Video processing completed. No gestures
\* detected." and isProcessing is false
C22_NoGesturesText ==
  [][FinishesWithoutGesture =>
       /\ translatedText' = "Video processing completed. No gestures detected."
       /\ ~isProcessing']_vars

\* a run from the first render has finished on a frame without a hand, no gesture
\* detected, and the text is that of the empty list of gestures
C22_Witness ==
  /\ ~isProcessing
  /\ frameLast.mode = "upload" /\ frameLast.gesture = NULL
  /\ detectedGestures = <<>>
  /\ runClosure.detectedGestures = <<>>
  /\ translatedText = "Unknown gesture"

(***************************************************************************)
(* Properties of the client-side creation of profiles.                     *)
(***************************************************************************)
\* the step in which fetchUserRole finds no row and sets the timer of the insert
SchedulesInsertStep == insertTimers \subseteq insertTimers' /\ insertTimers' # insertTimers

\* the step in which the delayed insert of timer t runs
InsertStep(t) == insertTimers' = insertTimers \ {t} /\ last'.op = "timerInsert"

ProfilesAfter(u) == {r \in user_profiles' : r.id = u}

C24_ProcessingTerminates == isProcessing ~> ~isProcessing

\* the video has failed to load its metadata: isProcessing is true and no
\* callback of the run is left
C24_Witness ==
  /\ isProcessing
  /\ uploadPc = "noMetadata"

(***************************************************************************)
(* Properties of the saving and loading of captions.                       *)
(***************************************************************************)
\* Math.floor of a time in tenths of a second
WholeSeconds(t) == (t \div 10) * 10

\* the loaded list has the entries of the saved one, in their order, with their
\* texts and with their times truncated to whole seconds
RoundTrip(list, loaded) ==
  /\ Len(loaded) = Len(list)
  /\ \A i \in DOMAIN list :
       /\ i \in DOMAIN loaded
       /\ loaded[i].text = list[i].text
       /\ loaded[i].startTime = WholeSeconds(list[i].startTime)
       /\ loaded[i].endTime = WholeSeconds(list[i].endTime)

\* the step in which the captioner is opened again with the saved text of the
\* caption list it had when it was left
LoadsSavedList ==
  /\ ~capMounted /\ capMounted'
  /\ generatedCaptions # <<>>
  /\ videoCaptions = NotesText(generatedCaptions)

\* C25: saving and loading is a round trip: for every caption list, the list
\* parsed from its auto-saved text has the same length and order, each entry with
\* the original text and the original start and end time truncated to whole seconds
C25_SaveLoadRoundTrip ==
  [][LoadsSavedList => RoundTrip(generatedCaptions, generatedCaptions')]_vars

\* the captioner has been opened again with saved lines of which it has loaded
\* none: the saved text is kept and the list is empty
C25_Witness ==
  /\ capMounted
  /\ capLast.op = "load"
  /\ videoCaptions # <<>>
  /\ generatedCaptions = <<>>

====
